---- MODULE Spec2Model ----
(***************************************************************************)
(* A model of DatabaseService (src/server.ts, lines 1241-2028): the        *)
(* connection pool manager (closePool, initPool, getPool) and the data     *)
(* operations built on it.  JavaScript runs one continuation at a time:    *)
(* every action below is the code that runs between two suspension points  *)
(* (await) of one async function.                                          *)
(***************************************************************************)
EXTENDS Integers, Sequences, FiniteSets, TLC

\* ---------------------------------------------------------------- bounds
NCallers == 2          \* concurrent logical requests
MaxPools == 3          \* pool instances (connect attempts) ever created
MaxCalls == 3          \* top-level calls issued by one caller
MaxPoolErrors == 1     \* asynchronous 'error' events emitted by pools
MaxRetriesBound == 2   \* largest configured maxRetries explored
NConn == 2             \* connections of one pool (SQL_POOL_MAX)
MaxTime == 1           \* clock ticks
MaxOps == 2            \* data operations issued by one caller
MaxStmts == 2          \* top-level statements of one parsed text
CacheTTL == 1          \* schemaCacheTTL, in clock ticks
MaxEnvLen == 3         \* longest value of SQL_ALLOWED_DATABASES

\* SQL_RETRY_DELAY_MS and SQL_RETRY_MAX_DELAY_MS: the defaults of config.js
\* (lines 23-24) and the other values explored, in milliseconds.
InitialRetryDelayDefault == 1000
MaxRetryDelayDefault == 10000
QueryDetailLimit == 100
RetryDelays == {100, InitialRetryDelayDefault}
RetryCaps == {500, MaxRetryDelayDefault}

Callers == 1..NCallers
Conns == 1..NConn
PoolIds == 1..MaxPools
NoPool == 0

\* ---------------------------------------------------------------- state
VARIABLES
  cfg,                \* sqlConfig: read-only after construction
  main,               \* the main() function and the process it runs in
  pool,               \* this.pool: NoPool or a pool id
  connectionPromise,  \* this.connectionPromise: 0 or the id of the attempt
  isConnecting,       \* this.isConnecting
  abortController,    \* this.abortController: 0 or the id of the attempt
  aborted,            \* signal.aborted of the controller of each attempt
  poolState,          \* driver state of each pool instance
  race,               \* Promise.race([connect, timeout]) of each attempt
  promise,            \* the promise returned by the async body of initPool
  perr,               \* kind of the error a rejected promise carries
  ipc,                \* position of the async body of each attempt
  nextId,             \* next pool instance to be constructed
  hpc,                \* position of the 'error' handler of each pool
  nPoolErrors,        \* 'error' events emitted so far
  pc,                 \* position of each caller
  att,                \* currentAttempt of the caller's getPool
  wait,               \* promise a caller awaits
  ret,                \* who called getPool: what runs when it returns
  gp,                 \* outcome of the caller's last getPool/closePool
  calls,              \* calls issued so far by each caller
  nconn,              \* connect() calls issued by the caller's getPool
  nback,              \* backoff delays taken by the caller's getPool
  delays,             \* those delays, in milliseconds, in the order taken
  opst,               \* the data operation each caller is running
  ctx,                \* database context of every connection of every pool
  schemaCache,        \* this.schemaCache
  now                 \* Date.now()

pmvars == <<pool, connectionPromise, isConnecting, abortController, aborted,
            poolState, race, promise, perr, ipc, nextId>>
hvars == <<hpc, nPoolErrors>>
cvars == <<pc, att, wait, ret, gp, calls, nconn, nback, delays>>
ovars == <<opst, ctx, schemaCache, now>>
vars == <<cfg, main, pmvars, hvars, cvars, ovars>>

NoOutcome ==
  [kind |-> "none", pool |-> NoPool, attempts |-> 0, cause |-> "none",
   via |-> "none"]

\* pool.connected of the driver
Connected(p) == p # NoPool /\ poolState[p] = "connected"

\* AbortController.abort(): sets signal.aborted and runs the 'abort'
\* listener registered at line 1398, which rejects the timeout promise and
\* so a race that has not settled yet.
AbortedAfter(k) == IF k = 0 THEN aborted ELSE [aborted EXCEPT ![k] = TRUE]
RaceAfterAbort(k) ==
  IF k = 0 THEN race
  ELSE [race EXCEPT ![k] = IF @ = "pending" THEN "aborted" ELSE @]

\* ------------------------------------------------------------- strings
\* A JavaScript string is the sequence of its characters.
UpperLetters == {"A","B","C","D","E","F","G","H","I","J","K","L","M",
                 "N","O","P","Q","R","S","T","U","V","W","X","Y","Z"}
LowerLetters == {"a","b","c","d","e","f","g","h","i","j","k","l","m",
                 "n","o","p","q","r","s","t","u","v","w","x","y","z"}
Digits == {"0","1","2","3","4","5","6","7","8","9"}
Whitespace == {" "}
WordChars == UpperLetters \cup LowerLetters \cup Digits \cup {"_"}

\* String.prototype.toLowerCase, one character.
LowerPairs ==
  {<<"A","a">>, <<"B","b">>, <<"C","c">>, <<"D","d">>, <<"E","e">>,
   <<"F","f">>, <<"G","g">>, <<"H","h">>, <<"I","i">>, <<"J","j">>,
   <<"K","k">>, <<"L","l">>, <<"M","m">>, <<"N","n">>, <<"O","o">>,
   <<"P","p">>, <<"Q","q">>, <<"R","r">>, <<"S","s">>, <<"T","t">>,
   <<"U","u">>, <<"V","v">>, <<"W","w">>, <<"X","x">>, <<"Y","y">>,
   <<"Z","z">>}
LowerChar(ch) ==
  IF ch \in UpperLetters
    THEN (CHOOSE pr \in LowerPairs : pr[1] = ch)[2]
    ELSE ch
ToLowerCase(str) == [i \in 1..Len(str) |-> LowerChar(str[i])]

\* String.prototype.includes
Includes(hay, needle) ==
  \E i \in 0..(Len(hay) - Len(needle)) :
    \A j \in 1..Len(needle) : hay[i + j] = needle[j]

\* query.trim() === '' (line 1770; !query covers the empty string)
IsBlank(str) == \A i \in 1..Len(str) : str[i] \in Whitespace

\* /^[a-zA-Z0-9_\-\s\[\]]+$/ (lines 1609, 1757, 1926)
ValidDbName(str) ==
  /\ Len(str) >= 1
  /\ \A i \in 1..Len(str) :
       str[i] \in WordChars \cup Whitespace \cup {"-", "[", "]"}

\* dbName.replace(/\]/g, '').replace(/\[/g, '') (lines 1620, 1767, 1937):
\* the database named by the USE statement.
IsNotBracket(ch) == ch \notin {"[", "]"}
StripBrackets(str) == SelectSeq(str, IsNotBracket)

\* /^([a-zA-Z0-9_]+\.)?[a-zA-Z0-9_]+$/ (line 1944)
ValidProcName(str) ==
  LET dots == {i \in 1..Len(str) : str[i] = "."}
  IN /\ Len(str) >= 1
     /\ \A i \in 1..Len(str) : str[i] \in WordChars \cup {"."}
     /\ Cardinality(dots) <= 1
     /\ \A i \in dots : 1 < i /\ i < Len(str)

\* The substrings of lines 1798-1803, matched against the lower-cased text.
EXEC_ == <<"e", "x", "e", "c", " ">>
EXECUTE_ == <<"e", "x", "e", "c", "u", "t", "e", " ">>
SP_ == <<"s", "p", "_">>
XP_ == <<"x", "p", "_">>
RECONFIGURE == <<"r", "e", "c", "o", "n", "f", "i", "g", "u", "r", "e">>
WAITFOR_DELAY == <<"w", "a", "i", "t", "f", "o", "r", " ", "d", "e", "l", "a", "y">>
BlockedSubstrings ==
  {EXEC_, EXECUTE_, SP_, XP_, RECONFIGURE, WAITFOR_DELAY}
HasBlockedSubstring(text) ==
  \E b \in BlockedSubstrings : Includes(ToLowerCase(text), b)

\* ------------------------------------------------------- operation data
\* Database names: the configured default and two others, with a bracketed
\* spelling and a name outside the safe-character pattern.
DbM == <<"M">>
DbA == <<"A">>
DbABracketed == <<"[", "A", "]">>
DbBad == <<"A", ";">>
\* rawDatabaseArg: <<>> is an argument that is absent (or the empty string).
DbArgs == {<<>>, DbA, DbABracketed, DbBad}
Whitelists == {{}, {DbM}, {DbA}, {DbM, DbA}}

\* The values of the environment variable SQL_ALLOWED_DATABASES: not set,
\* or a string of at most MaxEnvLen characters.
Unset == <<"unset">>
EnvChars == {"A", "M", ",", " "}
EnvValues == {Unset} \cup UNION {[1..n -> EnvChars] : n \in 0..MaxEnvLen}

\* String.prototype.split(","): the pieces between the commas, one piece
\* more than there are commas.
RECURSIVE SplitFrom(_, _, _)
SplitFrom(str, i, piece) ==
  IF i > Len(str) THEN <<piece>>
  ELSE IF str[i] = "," THEN <<piece>> \o SplitFrom(str, i + 1, <<>>)
  ELSE SplitFrom(str, i + 1, Append(piece, str[i]))
Split(str) == SplitFrom(str, 1, <<>>)

\* String.prototype.trim()
RECURSIVE TrimStart(_)
TrimStart(str) ==
  IF str # <<>> /\ Head(str) \in Whitespace THEN TrimStart(Tail(str)) ELSE str
RECURSIVE TrimEnd(_)
TrimEnd(str) ==
  IF str # <<>> /\ str[Len(str)] \in Whitespace
    THEN TrimEnd(SubSeq(str, 1, Len(str) - 1))
    ELSE str
Trim(str) == TrimEnd(TrimStart(str))

\* Array.prototype.filter(Boolean) on strings: the empty string is dropped.
FilterBoolean(list) == SelectSeq(list, LAMBDA x : x # <<>>)

\* config.js, line 29:
\* (process.env.SQL_ALLOWED_DATABASES || "").split(",").filter(Boolean)
AllowedDatabases(v) ==
  FilterBoolean(Split(IF v = Unset THEN <<>> ELSE v))

\* Query texts.
TxtEmpty == <<>>
TxtBlank == <<" ">>
TxtSelect == <<"S", "E", "L", "E", "C", "T", " ", "1">>
TxtDrop == <<"D", "R", "O", "P", " ", "T", "A", "B", "L", "E", " ", "F", "o", "o">>
TxtSpWho == <<"S", "E", "L", "E", "C", "T", " ", "*", " ", "F", "R", "O", "M", " ", "s", "p", "_", "w", "h", "o">>
TxtXp == <<"s", "e", "l", "e", "c", "t", " ", "X", "P", "_", "x">>
TxtExec == <<"E", "X", "E", "C", " ", "p">>
TxtExecute == <<"E", "x", "e", "c", "u", "t", "e", " ", "p">>
TxtReconfigure == <<"R", "E", "C", "O", "N", "F", "I", "G", "U", "R", "E">>
TxtWaitfor == <<"W", "A", "I", "T", "F", "O", "R", " ", "D", "E", "L", "A", "Y", " ", "1">>
TxtTwo == <<"S", "E", "L", "E", "C", "T", " ", "1", ";", " ", "D", "E", "L", "E", "T", "E", " ", "t">>
TxtExecutor == <<"S", "E", "L", "E", "C", "T", " ", "e", "x", "e", "c", "u", "t", "o", "r">>
QueryTexts == {TxtEmpty, TxtBlank, TxtSelect, TxtDrop, TxtSpWho, TxtXp,
               TxtExec, TxtExecute, TxtReconfigure, TxtWaitfor, TxtTwo, TxtExecutor}

\* Procedure names.
ProcNames ==
  {<<>>, <<"p">>, <<"d", ".", "p">>, <<"p", ";">>,
   <<"a", ".", "d", ".", "p">>}

\* Parameter lists of executeStoredProcedure: name and type of each entry;
\* an absent or empty string is <<>>.
Param(n, t) == [name |-> n, type |-> t]
ParamLists ==
  {<<>>, <<Param(<<"x">>, <<"i", "n", "t">>)>>,
   <<Param(<<>>, <<"i", "n", "t">>)>>,
   <<Param(<<"x">>, <<"i", "n", "t">>), Param(<<"@", "y">>, <<>>)>>}

\* The test of line 1952, for every parameter of the loop of line 1951.
ParamsOk(params) ==
  \A i \in 1..Len(params) : params[i].name # <<>> /\ params[i].type # <<>>

\* What parser.astify (node-sql-parser, line 1777) can answer for a text: a
\* parse failure or the kinds of the top-level statements.  The parser is a
\* library outside the repository: every answer is possible for every text.
StmtKinds == {"select", "delete", "drop"}
NoAst == [state |-> "none", stmts |-> <<>>]
ParseResults ==
  {[state |-> "fail", stmts |-> <<>>]} \cup
  {[state |-> "ok", stmts |-> st] :
     st \in UNION {[1..n -> StmtKinds] : n \in 1..MaxStmts}}

\* A failure raised by the driver: the phrases its message contains (of
\* those the catch blocks look for) and whether its code is ESOCKET.
WordSets == {{}, {"invalid sql syntax"}, {"syntax error"}, {"permission"},
             {"constraint"}, {"timeout"}, {"connect"},
             {"timeout", "connect"}, {"permission", "connect"},
             {"invalid database name format"}}
DriverErrors == [words : WordSets, esocket : BOOLEAN]
\* A request on a pool that is not connected fails with the driver's
\* 'Connection is closed.' error.
ClosedError == [words |-> {"connect"}, esocket |-> FALSE]
ErrorsOf(p) == IF Connected(p) THEN DriverErrors ELSE {ClosedError}
\* No driver error caught.
NoErr == [words |-> {}, esocket |-> FALSE]

\* enum ErrorType (errors.ts, lines 1-12).
ErrorTypes ==
  {"UnknownError", "ConnectionError", "ConnectionTimeout", "QueryError",
   "StoredProcedureError", "SchemaError", "ValidationError",
   "PermissionError", "DatabaseError", "SqlParserError"}

\* An absent cache entry.
NoEntry == [ts |-> 0 - 1, data |-> <<>>]

\* result.recordset of the driver (lines 1812-1817): undefined, rows whose
\* own keys are the column names, or an empty array that may carry the
\* column metadata 'columns', a map whose values {index, name} are listed
\* by Object.values in insertion order.
NoRecordSet ==
  [state |-> "none", keys |-> <<>>, nrows |-> 0, hasColumns |-> FALSE,
   columns |-> <<>>]
Col(n, i) == [name |-> n, index |-> i]
ColumnMaps ==
  {<<>>, <<Col("a", 0)>>, <<Col("b", 0)>>,
   <<Col("a", 0), Col("b", 1)>>, <<Col("a", 1), Col("b", 0)>>,
   <<Col("b", 0), Col("a", 1)>>, <<Col("b", 1), Col("a", 0)>>}
RecordSets ==
  {[NoRecordSet EXCEPT !.state = "undefined"]}
  \cup {[NoRecordSet EXCEPT !.state = "rows", !.keys = k, !.nrows = 1] :
          k \in {<<"a">>, <<"b", "a">>}}
  \cup {[NoRecordSet EXCEPT !.state = "empty"]}
  \cup {[NoRecordSet EXCEPT !.state = "empty", !.hasColumns = TRUE,
                            !.columns = m] : m \in ColumnMaps}

\* colArray.sort((a, b) => a.index - b.index) (line 1833)
RECURSIVE InsertByIndex(_, _)
InsertByIndex(col, sorted) ==
  IF sorted = <<>> THEN <<col>>
  ELSE IF col.index <= Head(sorted).index THEN <<col>> \o sorted
  ELSE <<Head(sorted)>> \o InsertByIndex(col, Tail(sorted))
RECURSIVE SortByIndex(_)
SortByIndex(cols) ==
  IF cols = <<>> THEN <<>>
  ELSE InsertByIndex(Head(cols), SortByIndex(Tail(cols)))

\* colArray.map(c => c.name) (line 1834)
ColumnNames(cols) == [i \in 1..Len(cols) |-> cols[i].name]

\* A QueryResult; a row stands for its values, one per key.
NoResult == [columns |-> <<>>, rows |-> <<>>, recordCount |-> 0 - 1]

\* The result shaping with the column metadata taken in the order
\* Object.values gives.
ShapeResultUnsorted(rs) ==
  IF rs.state = "rows"
    THEN [columns |-> rs.keys, rows |-> [i \in 1..rs.nrows |-> rs.keys],
          recordCount |-> rs.nrows]
    ELSE [columns |-> IF rs.state = "empty" /\ rs.hasColumns
                        THEN ColumnNames(rs.columns) ELSE <<>>,
          rows |-> <<>>, recordCount |-> 0]

\* executeQuery, lines 1817-1852: the result built from the recordset.
ShapeResult(rs) ==
  IF rs.state = "rows"
    THEN [columns |-> rs.keys, rows |-> [i \in 1..rs.nrows |-> rs.keys],
          recordCount |-> rs.nrows]
    ELSE IF rs.state = "empty"
      THEN [columns |-> IF rs.hasColumns
                          THEN ColumnNames(SortByIndex(rs.columns))
                          ELSE <<>>,
            rows |-> <<>>, recordCount |-> 0]
      ELSE [columns |-> <<>>, rows |-> <<>>, recordCount |-> 0]

\* The response of a tool or resource handler: nothing yet, the result
\* payload, or the error payload {error, errorType, details}.
NoResp == [status |-> "none", errorType |-> "none", message |-> FALSE,
           details |-> {}, values |-> {}]

\* The pool and the connection that ran the statement of the caller's last
\* request, when that request was a successful execute_query.
NoPrev == [pool |-> NoPool, conn |-> 0]

\* The locals of one data operation and, once it has ended, its outcome.
NoOp ==
  [type |-> "none", arg |-> <<>>, target |-> <<>>, text |-> <<>>,
   proc |-> <<>>, paramsOk |-> TRUE, cur |-> NoPool, ast |-> NoAst,
   useConn |-> 0, mainConn |-> 0, mainCtx |-> <<>>, cacheRead |-> FALSE,
   cacheWrite |-> FALSE, fromCache |-> FALSE, gpCalls |-> 0,
   kind |-> "none", allowed |-> FALSE, driver |-> FALSE,
   rebuildFailed |-> FALSE, cached |-> <<>>, msgs |-> {},
   closeFailed |-> FALSE, resp |-> NoResp, rs |-> NoRecordSet,
   result |-> NoResult, params |-> <<>>, prev |-> NoPrev, err |-> NoErr,
   sd |-> {}]

\* rawDatabaseArg || this.sqlConfig.database (lines 1735, 1904; line 129 of
\* the schema resource handler)
ResolveTarget(arg) == IF arg = <<>> THEN cfg.database ELSE arg

\* The whitelist test without its 'length > 0' part.
WhitelistRejectsNoEmptyCheck(target) == target \notin cfg.allowed

\* The whitelist test of lines 1581, 1737 and 1906.
WhitelistRejects(target) == cfg.allowed # {} /\ target \notin cfg.allowed

\* The operation throws an MssqlMcpError of kind k built by the service.
Fail(o, k) == [o EXCEPT !.kind = k]

\* The details object of an error: a set of <<key, value>> pairs with one
\* pair for a key.  A text is its own value; Undefined is the value of a
\* property set to undefined, Some the value of a key of which only the
\* presence is modelled.
Undefined == <<"undefined">>
Some == <<"value">>
Keys(d) == {p[1] : p \in d}
\* { ...d, ...a } (errors.ts, line 34)
Spread(d, a) == {p \in d : p[1] \notin Keys(a)} \cup a
\* The service throws an MssqlMcpError of kind k with details d.
Throw(o, k, d) == [Fail(o, k) EXCEPT !.sd = d]
\* query.length > 100 ? query.substring(0, 100) + '...' : query
Truncated(q) ==
  IF Len(q) > QueryDetailLimit
    THEN SubSeq(q, 1, QueryDetailLimit) \o <<".", ".", ".">>
    ELSE q
\* The details of the errors of the validation steps.
QueryDetails(o) == {<<"query", o.text>>}
ProcDetails(o) == {<<"procedure", o.proc>>}
\* The details of getPool's ConnectionError (line 1572).
GetPoolDetails == {<<"attempts", Some>>}
\* fromError applied by a catch block to the driver's error (lines 1726,
\* 1895, 2022, with errors.ts, lines 52-57).
FromRawDetails(o) ==
  {<<"stack", Some>>} \cup
  (IF o.type = "query" THEN {<<"query", Truncated(o.text)>>}
   ELSE IF o.type = "proc" THEN {<<"procedure", o.proc>>}
   ELSE {<<"database", o.target>>})
\* The details of the error thrown when the rebuild failed (lines
\* 1717-1722, 1885-1891, 2012-2018).
ReconnectDetails(o) ==
  {<<"database", o.target>>, <<"operation", Some>>,
   <<"originalErrorMsg", Some>>, <<"details", Some>>} \cup
  (IF o.type = "query" THEN {<<"query", Truncated(o.text)>>}
   ELSE IF o.type = "proc" THEN {<<"procedure", o.proc>>}
   ELSE {})

\* ------------------------------------------------- caller bookkeeping
\* The caller-local part of a step: where the caller continues, the promise
\* it awaits, the outcome of its getPool and its per-call counters.
CallerSet(c, newpc, w, outcome, nc, nb) ==
  /\ pc' = [pc EXCEPT ![c] = newpc]
  /\ wait' = [wait EXCEPT ![c] = w]
  /\ gp' = [gp EXCEPT ![c] = outcome]
  /\ nconn' = [nconn EXCEPT ![c] = nc]
  /\ nback' = [nback EXCEPT ![c] = nb]
  /\ delays' = [delays EXCEPT ![c] = IF nb = 0 THEN <<>> ELSE @]

\* Math.random() * 1000 (line 1559): values of the interval [0, 1000).
Jitters == {0, 999}

Min(x, y) == IF x <= y THEN x ELSE y

\* The delay of lines 1558-1561 without the cap.
DelayUncapped(a, j) == cfg.initialRetryDelay * 2^a + j

\* getPool, lines 1558-1561: the delay before attempt a + 1, j being the
\* jitter.
Delay(a, j) == Min(cfg.initialRetryDelay * 2^a + j, cfg.maxRetryDelay)

\* getPool, lines 1557-1564: the caller computes its delay and waits.
CallerBackoff(c, a, nc, nb) ==
  /\ pc' = [pc EXCEPT ![c] = "backoff"]
  /\ wait' = [wait EXCEPT ![c] = 0]
  /\ gp' = gp
  /\ nconn' = [nconn EXCEPT ![c] = nc]
  /\ nback' = [nback EXCEPT ![c] = nb + 1]
  /\ \E j \in Jitters :
       delays' = [delays EXCEPT ![c] = Append(@, Delay(a, j))]

\* A returned pool, and the return statement it left getPool by: "existing"
\* (line 1485), "watched" (line 1497), "probed" (lines 1339 and 1545) or
\* "created" (lines 1442 and 1545).
OkOutcome(p, via) ==
  [kind |-> "ok", pool |-> p, attempts |-> 0, cause |-> "none", via |-> via]
\* A thrown MssqlMcpError: its errorType, details.attempts, and the kind of
\* the error it was built from.
ErrOutcome(k, n, cause) ==
  [kind |-> k, pool |-> NoPool, attempts |-> n, cause |-> cause,
   via |-> "none"]

\* GetPoolCatch with the retry test off by one (currentAttempt < maxRetries).
GetPoolCatchOffByOne(c, a, nc, nb, errKind) ==
  /\ isConnecting' = FALSE
  /\ IF a < cfg.maxRetries
       THEN CallerBackoff(c, a, nc, nb)
       ELSE CallerSet(c, "gp_ret", 0,
                      ErrOutcome("ConnectionError", cfg.maxRetries, errKind),
                      nc, nb)

\* getPool, lines 1546-1575: the catch block.  The lock is released, then
\* either a backoff delay is taken and getPool re-entered with
\* currentAttempt + 1, or a ConnectionError carrying
\* attempts = maxRetries is thrown.  The kind of the caught error plays no
\* part in the decision.
GetPoolCatch(c, a, nc, nb, errKind) ==
  /\ isConnecting' = FALSE
  /\ IF a < cfg.maxRetries - 1
       THEN CallerBackoff(c, a, nc, nb)
       ELSE CallerSet(c, "gp_ret", 0,
                      ErrOutcome("ConnectionError", cfg.maxRetries, errKind),
                      nc, nb)

\* initPool, lines 1347-1478, entered with connectionPromise = cp,
\* abortController = ac, the signals ab and the races rc: the password
\* check, the abort of a controller left live, and the synchronous start of
\* the async body up to its first await (Promise.race at line 1406), that
\* is, the construction of pool instance nextId and its connect() call.
\* Assigns every pool-manager variable except pool.
InitPoolI2(c, a, nc, nb, cp, ac, ab, rc) ==
  IF ~cfg.password
    THEN /\ GetPoolCatch(c, a, nc, nb, "ValidationError")
         /\ connectionPromise' = cp
         /\ abortController' = ac
         /\ aborted' = ab
         /\ race' = rc
         /\ UNCHANGED <<poolState, promise, perr, ipc, nextId>>
    ELSE /\ nextId <= MaxPools
         /\ LET k == nextId
                live == ac # 0 /\ ~ab[ac]
            IN /\ isConnecting' = TRUE
               /\ aborted' = IF live THEN [ab EXCEPT ![ac] = TRUE] ELSE ab
               /\ race' = [(IF live
                              THEN [rc EXCEPT ![ac] = IF @ = "pending"
                                                        THEN "aborted" ELSE @]
                              ELSE rc) EXCEPT ![k] = "pending"]
               /\ poolState' = [poolState EXCEPT ![k] = "connecting"]
               /\ promise' = [promise EXCEPT ![k] = "pending"]
               /\ ipc' = [ipc EXCEPT ![k] = "race"]
               /\ connectionPromise' = k
               /\ abortController' = k
               /\ nextId' = k + 1
               /\ UNCHANGED perr
               /\ CallerSet(c, "initwait", k, gp[c], nc + 1, nb)

\* initPool, lines 1327-1345, as called from getPool line 1533 right after
\* isConnecting = true: an attempt in progress is adopted, a connected pool
\* is probed, otherwise a new attempt starts.
InitPoolSync(c, a, nc, nb) ==
  IF connectionPromise # 0 /\ abortController # 0 /\ ~aborted[abortController]
    THEN /\ isConnecting' = TRUE
         /\ CallerSet(c, "initwait", connectionPromise, gp[c], nc, nb)
         /\ UNCHANGED <<connectionPromise, abortController, aborted,
                        poolState, race, promise, perr, ipc, nextId>>
    ELSE IF Connected(pool)
      THEN /\ isConnecting' = TRUE
           /\ CallerSet(c, "probe", pool, gp[c], nc, nb)
           /\ UNCHANGED <<connectionPromise, abortController, aborted,
                          poolState, race, promise, perr, ipc, nextId>>
      ELSE InitPoolI2(c, a, nc, nb, connectionPromise, abortController,
                      aborted, race)

\* getPool, lines 1512-1533: the 'isConnecting without promise' wait, or
\* the lock is taken and initPool called.  ic is isConnecting as this call
\* sees it.
GetPoolLock(c, a, nc, nb, ic) ==
  IF ic
    THEN /\ CallerSet(c, "briefwait", 0, gp[c], nc, nb)
         /\ UNCHANGED <<connectionPromise, isConnecting, abortController,
                        aborted, poolState, race, promise, perr, ipc, nextId>>
    ELSE InitPoolSync(c, a, nc, nb)

\* getPool from its entry to its first await, without the return of a
\* connected pool at lines 1482-1486.
GetPoolBodyNoReuse(c, a, nc, nb) ==
  /\ pool' = pool
  /\ IF isConnecting /\ connectionPromise # 0
       THEN /\ CallerSet(c, "watch", connectionPromise, gp[c], nc, nb)
            /\ UNCHANGED <<connectionPromise, isConnecting, abortController,
                           aborted, poolState, race, promise, perr, ipc,
                           nextId>>
       ELSE GetPoolLock(c, a, nc, nb, isConnecting)

\* getPool, lines 1481-1533, from its entry to its first await.
GetPoolBody(c, a, nc, nb) ==
  /\ pool' = pool
  /\ IF Connected(pool)
       THEN /\ CallerSet(c, "gp_ret", 0, OkOutcome(pool, "existing"), nc,
                          nb)
            /\ UNCHANGED <<connectionPromise, isConnecting, abortController,
                           aborted, poolState, race, promise, perr, ipc,
                           nextId>>
       ELSE IF isConnecting /\ connectionPromise # 0
         THEN /\ CallerSet(c, "watch", connectionPromise, gp[c], nc, nb)
              /\ UNCHANGED <<connectionPromise, isConnecting, abortController,
                             aborted, poolState, race, promise, perr, ipc,
                             nextId>>
         ELSE GetPoolLock(c, a, nc, nb, isConnecting)

\* closePool, lines 1310-1313: the controller, if any, is aborted and
\* dropped.
ClosePoolAbort ==
  /\ aborted' = AbortedAfter(abortController)
  /\ race' = RaceAfterAbort(abortController)
  /\ abortController' = 0

\* closePool, line 1316: pool.close() is called on the current pool (the
\* driver clears pool.connected at once) and awaited.
CloseCurrent == poolState' = [poolState EXCEPT ![pool] = "closed"]

\* Pool instances whose connect() is under way at the driver: issued, not
\* settled, and close() not called on the instance.
InFlight == {k \in PoolIds : poolState[k] = "connecting"}

\* ------------------------------------------------------ caller actions
\* A caller calls getPool() (line 1481, currentAttempt = 0).
StartGetPool(c) ==
  /\ pc[c] = "idle"
  /\ calls[c] < MaxCalls
  /\ calls' = [calls EXCEPT ![c] = @ + 1]
  /\ att' = [att EXCEPT ![c] = 0]
  /\ ret' = [ret EXCEPT ![c] = "top"]
  /\ GetPoolBody(c, 0, 0, 0)
  /\ UNCHANGED <<cfg, main, ovars, hvars>>

\* The backoff delay of line 1564 elapses: getPool(currentAttempt + 1).
BackoffElapsed(c) ==
  /\ pc[c] = "backoff"
  /\ att' = [att EXCEPT ![c] = @ + 1]
  /\ GetPoolBody(c, att[c] + 1, nconn[c], nback[c])
  /\ UNCHANGED <<cfg, main, ovars, hvars, ret, calls>>

\* The brief wait of line 1518 elapses: getPool(currentAttempt).
BriefWaitElapsed(c) ==
  /\ pc[c] = "briefwait"
  /\ GetPoolBody(c, att[c], nconn[c], nback[c])
  /\ UNCHANGED <<cfg, main, ovars, hvars, att, ret, calls>>

\* getPool, lines 1493-1533: the watched connectionPromise has settled.
WatchResume(c) ==
  /\ pc[c] = "watch"
  /\ promise[wait[c]] # "pending"
  /\ pool' = pool
  /\ IF promise[wait[c]] = "resolved"
       THEN IF Connected(pool) /\ pool = wait[c]
              THEN /\ CallerSet(c, "gp_ret", 0, OkOutcome(pool, "watched"),
                                nconn[c], nback[c])
                   /\ UNCHANGED <<connectionPromise, isConnecting,
                                  abortController, aborted, poolState, race,
                                  promise, perr, ipc, nextId>>
              ELSE GetPoolLock(c, att[c], nconn[c], nback[c], isConnecting)
       ELSE GetPoolLock(c, att[c], nconn[c], nback[c], FALSE)
  /\ UNCHANGED <<cfg, main, ovars, hvars, att, ret, calls>>

\* getPool, lines 1533-1575: the promise returned by initPool has settled.
InitResume(c) ==
  /\ pc[c] = "initwait"
  /\ promise[wait[c]] # "pending"
  /\ IF promise[wait[c]] = "resolved"
       THEN IF Connected(pool)
              THEN /\ isConnecting' = FALSE
                   /\ CallerSet(c, "gp_ret", 0, OkOutcome(pool, "created"),
                                nconn[c], nback[c])
              ELSE GetPoolCatch(c, att[c], nconn[c], nback[c],
                                "ConnectionError")
       ELSE GetPoolCatch(c, att[c], nconn[c], nback[c], perr[wait[c]])
  /\ UNCHANGED <<cfg, main, ovars, hvars, att, ret, calls, pool, connectionPromise,
                 abortController, aborted, poolState, race, promise, perr,
                 ipc, nextId>>

\* initPool, lines 1337-1339: the probe of the existing pool succeeded and
\* initPool returns this.pool; getPool checks it at line 1536.
ProbeOk(c) ==
  /\ pc[c] = "probe"
  /\ poolState[wait[c]] = "connected"
  /\ IF Connected(pool)
       THEN /\ isConnecting' = FALSE
            /\ CallerSet(c, "gp_ret", 0, OkOutcome(pool, "probed"),
                          nconn[c], nback[c])
       ELSE GetPoolCatch(c, att[c], nconn[c], nback[c], "ConnectionError")
  /\ UNCHANGED <<cfg, main, ovars, hvars, att, ret, calls, pool, connectionPromise,
                 abortController, aborted, poolState, race, promise, perr,
                 ipc, nextId>>

\* initPool, lines 1340-1344: the probe failed; closePool() is called.  With
\* no current pool it returns at once and initPool goes on at line 1347.
ProbeFail(c) ==
  /\ pc[c] = "probe"
  /\ pool' = pool
  /\ IF pool # NoPool
       THEN /\ ClosePoolAbort
            /\ CloseCurrent
            /\ CallerSet(c, "probeclose", 0, gp[c], nconn[c], nback[c])
            /\ UNCHANGED <<connectionPromise, isConnecting, promise, perr,
                           ipc, nextId>>
       ELSE InitPoolI2(c, att[c], nconn[c], nback[c], connectionPromise, 0,
                       AbortedAfter(abortController),
                       RaceAfterAbort(abortController))
  /\ UNCHANGED <<cfg, main, ovars, hvars, att, ret, calls>>

\* closePool, lines 1320-1323, then initPool from line 1347.
ProbeCloseDone(c) ==
  /\ pc[c] = "probeclose"
  /\ pool' = NoPool
  /\ InitPoolI2(c, att[c], nconn[c], nback[c], 0, abortController, aborted,
                race)
  /\ UNCHANGED <<cfg, main, ovars, hvars, att, ret, calls>>

\* getPool returns to a caller that called it directly; the locals of the
\* call are gone.
GetPoolReturnTop(c) ==
  /\ pc[c] = "gp_ret"
  /\ ret[c] = "top"
  /\ pc' = [pc EXCEPT ![c] = "idle"]
  /\ gp' = [gp EXCEPT ![c] = NoOutcome]
  /\ att' = [att EXCEPT ![c] = 0]
  /\ nconn' = [nconn EXCEPT ![c] = 0]
  /\ nback' = [nback EXCEPT ![c] = 0]
  /\ delays' = [delays EXCEPT ![c] = <<>>]
  /\ UNCHANGED <<cfg, main, ovars, pmvars, hvars, wait, ret, calls>>

\* closePool with its finally block (lines 1320-1323) run, and awaited,
\* whether or not there is a pool.
StartClosePoolFinallyAlways(c) ==
  /\ pc[c] = "idle"
  /\ calls[c] < MaxCalls
  /\ calls' = [calls EXCEPT ![c] = @ + 1]
  /\ ClosePoolAbort
  /\ IF pool # NoPool
       THEN CloseCurrent
       ELSE UNCHANGED poolState
  /\ pc' = [pc EXCEPT ![c] = "closing"]
  /\ UNCHANGED <<cfg, main, ovars, hvars, pool, connectionPromise, isConnecting,
                 promise, perr, ipc, nextId, att, wait, ret, gp, nconn, nback, delays>>

\* A caller calls closePool() (line 1309), up to its await.
StartClosePool(c) ==
  /\ pc[c] = "idle"
  /\ calls[c] < MaxCalls
  /\ calls' = [calls EXCEPT ![c] = @ + 1]
  /\ ClosePoolAbort
  /\ IF pool # NoPool
       THEN /\ CloseCurrent
            /\ pc' = [pc EXCEPT ![c] = "closing"]
       ELSE /\ UNCHANGED poolState
            /\ pc' = pc
  /\ UNCHANGED <<cfg, main, ovars, hvars, pool, connectionPromise, isConnecting, promise,
                 perr, ipc, nextId, att, wait, ret, gp, nconn, nback, delays>>

\* closePool, lines 1320-1323: pool.close() has settled.
ClosePoolDone(c) ==
  /\ pc[c] = "closing"
  /\ pool' = NoPool
  /\ connectionPromise' = 0
  /\ pc' = [pc EXCEPT ![c] = "idle"]
  /\ UNCHANGED <<cfg, main, ovars, hvars, isConnecting, abortController, aborted,
                 poolState, race, promise, perr, ipc, nextId, att, wait, ret,
                 gp, calls, nconn, nback, delays>>

\* ------------------------------------------------ the driver (mssql)
\* poolInstance.connect() of line 1392 succeeds: the pool is connected and
\* the race, unless already settled, resolves with it.
ConnectOk(k) ==
  /\ poolState[k] = "connecting"
  /\ poolState' = [poolState EXCEPT ![k] = "connected"]
  /\ race' = [race EXCEPT ![k] = IF @ = "pending" THEN "ok" ELSE @]
  /\ UNCHANGED <<cfg, main, ovars, hvars, cvars, pool, connectionPromise, isConnecting,
                 abortController, aborted, promise, perr, ipc, nextId>>

\* poolInstance.connect() fails.
ConnectFail(k) ==
  /\ poolState[k] = "connecting"
  /\ poolState' = [poolState EXCEPT ![k] = "failed"]
  /\ race' = [race EXCEPT ![k] = IF @ = "pending" THEN "connfail" ELSE @]
  /\ UNCHANGED <<cfg, main, ovars, hvars, cvars, pool, connectionPromise, isConnecting,
                 abortController, aborted, promise, perr, ipc, nextId>>

\* The timer of line 1396 fires first: the connect stays under way.
ConnectTimeout(k) ==
  /\ poolState[k] = "connecting"
  /\ race[k] = "pending"
  /\ race' = [race EXCEPT ![k] = "timeout"]
  /\ UNCHANGED <<cfg, main, ovars, hvars, cvars, pool, connectionPromise, isConnecting,
                 abortController, aborted, poolState, promise, perr, ipc,
                 nextId>>

\* ------------------------------- the async body of initPool (1360-1477)
\* Kind of the error the body throws for a race that did not yield a pool
\* (lines 1396, 1400, 1412, 1421).
RaceErrKind(r) == IF r = "timeout" THEN "ConnectionTimeout" ELSE "ConnectionError"

\* Lines 1406-1448 without the signal.aborted test of line 1408.
AttemptRaceSettledNoAbortCheck(k) ==
  /\ ipc[k] = "race"
  /\ race[k] # "pending"
  /\ IF race[k] = "ok"
       THEN /\ pool' = k
            /\ promise' = [promise EXCEPT ![k] = "resolved"]
            /\ ipc' = [ipc EXCEPT ![k] = "done"]
            /\ UNCHANGED <<poolState, perr>>
       ELSE /\ poolState' = [poolState EXCEPT ![k] = "closed"]
            /\ perr' = [perr EXCEPT ![k] = RaceErrKind(race[k])]
            /\ ipc' = [ipc EXCEPT ![k] = "catch_close"]
            /\ UNCHANGED <<pool, promise>>
  /\ UNCHANGED <<cfg, main, ovars, hvars, cvars, connectionPromise, isConnecting,
                 abortController, aborted, race, nextId>>

\* Lines 1406-1448: the race has settled.  A connected pool is assigned to
\* this.pool and the promise resolves (nothing is awaited in between), unless
\* the signal was aborted meanwhile; in every other case the pool instance
\* is closed and the catch block awaits poolInstance.close() (line 1448).
AttemptRaceSettled(k) ==
  /\ ipc[k] = "race"
  /\ race[k] # "pending"
  /\ IF race[k] = "ok" /\ ~aborted[k]
       THEN /\ pool' = k
            /\ promise' = [promise EXCEPT ![k] = "resolved"]
            /\ ipc' = [ipc EXCEPT ![k] = "done"]
            /\ UNCHANGED <<poolState, perr>>
       ELSE /\ poolState' = [poolState EXCEPT ![k] = "closed"]
            /\ perr' = [perr EXCEPT ![k] = RaceErrKind(race[k])]
            /\ ipc' = [ipc EXCEPT ![k] = "catch_close"]
            /\ UNCHANGED <<pool, promise>>
  /\ UNCHANGED <<cfg, main, ovars, hvars, cvars, connectionPromise, isConnecting,
                 abortController, aborted, race, nextId>>

\* The catch block leaving the promise of the attempt unsettled.
AttemptCatchResumeNeverSettles(k) ==
  /\ ipc[k] = "catch_close"
  /\ IF pool # NoPool
       THEN /\ ClosePoolAbort
            /\ CloseCurrent
            /\ ipc' = [ipc EXCEPT ![k] = "catch_closePool"]
            /\ UNCHANGED <<connectionPromise, promise>>
       ELSE /\ connectionPromise' = 0
            /\ aborted' = IF abortController = k THEN AbortedAfter(k) ELSE aborted
            /\ abortController' = IF abortController = k THEN 0 ELSE abortController
            /\ promise' = promise
            /\ ipc' = [ipc EXCEPT ![k] = "done"]
            /\ UNCHANGED <<poolState, race>>
  /\ UNCHANGED <<cfg, main, ovars, hvars, cvars, pool, isConnecting, perr, nextId>>

\* Lines 1455-1476: poolInstance.close() has settled.  With a current pool
\* closePool() is called (and awaited); otherwise connectionPromise is
\* cleared, the attempt's own controller, if still installed, is aborted and
\* dropped, and the promise rejects.
AttemptCatchResume(k) ==
  /\ ipc[k] = "catch_close"
  /\ IF pool # NoPool
       THEN /\ ClosePoolAbort
            /\ CloseCurrent
            /\ ipc' = [ipc EXCEPT ![k] = "catch_closePool"]
            /\ UNCHANGED <<connectionPromise, promise>>
       ELSE /\ connectionPromise' = 0
            /\ aborted' = IF abortController = k THEN AbortedAfter(k) ELSE aborted
            /\ abortController' = IF abortController = k THEN 0 ELSE abortController
            /\ promise' = [promise EXCEPT ![k] = "rejected"]
            /\ ipc' = [ipc EXCEPT ![k] = "done"]
            /\ UNCHANGED <<poolState, race>>
  /\ UNCHANGED <<cfg, main, ovars, hvars, cvars, pool, isConnecting, perr, nextId>>

\* Lines 1320-1323 and 1461-1476: the closePool() of the catch block has
\* settled; the promise rejects.
AttemptCatchClosePoolDone(k) ==
  /\ ipc[k] = "catch_closePool"
  /\ pool' = NoPool
  /\ connectionPromise' = 0
  /\ aborted' = IF abortController = k THEN AbortedAfter(k) ELSE aborted
  /\ abortController' = IF abortController = k THEN 0 ELSE abortController
  /\ promise' = [promise EXCEPT ![k] = "rejected"]
  /\ ipc' = [ipc EXCEPT ![k] = "done"]
  /\ UNCHANGED <<cfg, main, ovars, hvars, cvars, isConnecting, poolState, race, perr,
                 nextId>>

\* ------------------------------ the pool 'error' handler (1372-1379)
\* The 'error' handler dropping the current pool without closing it.
PoolErrorEventDropOnly(k) ==
  /\ poolState[k] = "connected"
  /\ hpc[k] = "idle"
  /\ nPoolErrors < MaxPoolErrors
  /\ nPoolErrors' = nPoolErrors + 1
  /\ IF pool = k
       THEN /\ ClosePoolAbort
            /\ poolState' = poolState
            /\ hpc' = [hpc EXCEPT ![k] = "closing"]
       ELSE /\ poolState' = [poolState EXCEPT ![k] = "closed"]
            /\ UNCHANGED <<hpc, aborted, race, abortController>>
  /\ UNCHANGED <<cfg, main, ovars, cvars, pool, connectionPromise, isConnecting,
                 promise, perr, ipc, nextId>>

\* A connected pool emits 'error': the current pool is torn down with
\* closePool(), any other instance is closed directly.
PoolErrorEvent(k) ==
  /\ poolState[k] = "connected"
  /\ hpc[k] = "idle"
  /\ nPoolErrors < MaxPoolErrors
  /\ nPoolErrors' = nPoolErrors + 1
  /\ IF pool = k
       THEN /\ ClosePoolAbort
            /\ CloseCurrent
            /\ hpc' = [hpc EXCEPT ![k] = "closing"]
       ELSE /\ poolState' = [poolState EXCEPT ![k] = "closed"]
            /\ UNCHANGED <<hpc, aborted, race, abortController>>
  /\ UNCHANGED <<cfg, main, ovars, cvars, pool, connectionPromise, isConnecting, promise,
                 perr, ipc, nextId>>

\* closePool, lines 1320-1323, in the handler.
HandlerCloseDone(k) ==
  /\ hpc[k] = "closing"
  /\ pool' = NoPool
  /\ connectionPromise' = 0
  /\ hpc' = [hpc EXCEPT ![k] = "idle"]
  /\ UNCHANGED <<cfg, main, ovars, cvars, nPoolErrors, isConnecting, abortController,
                 aborted, poolState, race, promise, perr, ipc, nextId>>

\* ------------------------------------------------------ data operations
\* The databases an operation can name.
DbNames == {DbM} \cup (DbArgs \ {<<>>})

\* executeQuery, lines 1770-1810, with the blocked substrings matched
\* against the text as written.
QueryValidatedCaseSensitive(o, r) ==
  IF IsBlank(o.text) THEN Throw(o, "ValidationError", QueryDetails(o))
  ELSE LET o1 == [o EXCEPT !.ast = r]
       IN IF r.state = "fail"
            THEN Throw(o1, "SqlParserError", QueryDetails(o))
          ELSE IF \E i \in DOMAIN r.stmts : r.stmts[i] # "select"
            THEN Throw(o1, "ValidationError",
                       QueryDetails(o) \cup {<<"queryType", Some>>})
          ELSE IF \E b \in BlockedSubstrings : Includes(o.text, b)
            THEN Throw(o1, "ValidationError", QueryDetails(o))
          ELSE o1

\* executeQuery, lines 1770-1810, with only the first parsed statement
\* tested.
QueryValidatedFirstOnly(o, r) ==
  IF IsBlank(o.text) THEN Throw(o, "ValidationError", QueryDetails(o))
  ELSE LET o1 == [o EXCEPT !.ast = r]
       IN IF r.state = "fail"
            THEN Throw(o1, "SqlParserError", QueryDetails(o))
          ELSE IF r.stmts[1] # "select"
            THEN Throw(o1, "ValidationError",
                       QueryDetails(o) \cup {<<"queryType", Some>>})
          ELSE IF HasBlockedSubstring(o.text)
            THEN Throw(o1, "ValidationError", QueryDetails(o))
          ELSE o1

\* executeQuery, lines 1770-1810: the text is checked, r being the answer
\* of parser.astify.  The operation comes out with kind "none" when the text
\* may be sent to the database.
QueryValidated(o, r) ==
  IF IsBlank(o.text) THEN Throw(o, "ValidationError", QueryDetails(o))
  ELSE LET o1 == [o EXCEPT !.ast = r]
       IN IF r.state = "fail"
            THEN Throw(o1, "SqlParserError", QueryDetails(o))
          ELSE IF \E i \in DOMAIN r.stmts : r.stmts[i] # "select"
            THEN Throw(o1, "ValidationError",
                       QueryDetails(o) \cup {<<"queryType", Some>>})
          ELSE IF HasBlockedSubstring(o.text)
            THEN Throw(o1, "ValidationError", QueryDetails(o))
          ELSE o1

\* The checks of executeStoredProcedure without the one on the parameters.
ProcValidatedNoParamCheck(o) ==
  IF IsBlank(o.proc) THEN Throw(o, "ValidationError", ProcDetails(o))
  ELSE IF ~ValidProcName(o.proc)
    THEN Throw(o, "ValidationError", ProcDetails(o))
  ELSE o

\* executeStoredProcedure, lines 1940-1958: name and parameters.
ProcValidated(o) ==
  IF IsBlank(o.proc) THEN Throw(o, "ValidationError", ProcDetails(o))
  ELSE IF ~ValidProcName(o.proc)
    THEN Throw(o, "ValidationError", ProcDetails(o))
  ELSE IF ~o.paramsOk
    THEN Throw(o, "ValidationError", {<<"parameter", Some>>})
  ELSE o

\* What follows the context switch (or its absence) up to the await of the
\* main statement.
Validated(o, r) ==
  IF o.type = "query" THEN QueryValidated(o, r)
  ELSE IF o.type = "proc" THEN ProcValidated(o)
  ELSE o

\* The catch blocks: the kind given to an error raised by the driver.
\* executeQuery, lines 1860-1872.
ClassifyQuery(e) ==
  IF "invalid sql syntax" \in e.words THEN "SqlParserError"
  ELSE IF "permission" \in e.words THEN "PermissionError"
  ELSE IF "constraint" \in e.words THEN "ValidationError"
  ELSE IF "timeout" \in e.words THEN "ConnectionTimeout"
  ELSE IF "invalid database name format" \in e.words THEN "ValidationError"
  ELSE IF "connect" \in e.words \/ e.esocket THEN "ConnectionError"
  ELSE "QueryError"

\* executeStoredProcedure, lines 1987-1999.
ClassifyProc(e) ==
  IF "syntax error" \in e.words THEN "SqlParserError"
  ELSE IF "permission" \in e.words THEN "PermissionError"
  ELSE IF "constraint" \in e.words THEN "ValidationError"
  ELSE IF "timeout" \in e.words THEN "ConnectionTimeout"
  ELSE IF "invalid database name format" \in e.words THEN "ValidationError"
  ELSE IF "connect" \in e.words \/ e.esocket THEN "ConnectionError"
  ELSE "StoredProcedureError"

\* getSchema, lines 1698-1704.
ClassifySchema(e) ==
  IF "invalid database name format" \in e.words THEN "ValidationError"
  ELSE IF "connect" \in e.words \/ e.esocket THEN "ConnectionError"
  ELSE "SchemaError"

Classify(type, e) ==
  IF type = "query" THEN ClassifyQuery(e)
  ELSE IF type = "proc" THEN ClassifyProc(e)
  ELSE ClassifySchema(e)

\* The operation of caller c becomes o and continues at newpc; its getPool
\* locals are left alone.
OpGoto(c, o, newpc) ==
  /\ opst' = [opst EXCEPT ![c] = o]
  /\ pc' = [pc EXCEPT ![c] = newpc]

\* The operation calls getPool() (lines 1604, 1752, 1921, and 1708, 1876,
\* 2003 for the rebuild).
OpGetPool(c, o, r) ==
  /\ opst' = [opst EXCEPT ![c] = [o EXCEPT !.gpCalls = @ + 1]]
  /\ att' = [att EXCEPT ![c] = 0]
  /\ ret' = [ret EXCEPT ![c] = r]
  /\ GetPoolBody(c, 0, nconn[c], 0)

\* A new operation of caller c.
NewOp(type, arg, target, text, proc, paramsOk) ==
  [NoOp EXCEPT !.type = type, !.arg = arg, !.target = target,
               !.text = text, !.proc = proc, !.paramsOk = paramsOk]

\* The whitelist rejection of lines 1586, 1742 and 1911: a PermissionError
\* whose details carry the allowed set.
WhitelistRejection(o) ==
  [Throw(o, "PermissionError", {<<"database", o.target>>, <<"allowed", Some>>})
     EXCEPT !.allowed = TRUE]

\* getSchema, lines 1579-1604, with the cache consulted before the
\* whitelist.
StartGetSchemaCacheFirst(c) ==
  /\ pc[c] = "idle"
  /\ calls[c] < MaxOps
  /\ calls' = [calls EXCEPT ![c] = @ + 1]
  /\ \E arg \in DbArgs :
       LET o == [NewOp("schema", arg, ResolveTarget(arg), <<>>, <<>>, TRUE)
                   EXCEPT !.cacheRead = TRUE]
           e == schemaCache[o.target]
       IN IF e.ts >= 0 /\ now - e.ts < cfg.schemaCacheTTL
            THEN /\ OpGoto(c, [o EXCEPT !.kind = "ok", !.fromCache = TRUE,
                                        !.cached = e.data], "op_ret")
                 /\ UNCHANGED <<pmvars, att, wait, ret, gp, nconn, nback, delays>>
            ELSE IF WhitelistRejects(o.target)
              THEN /\ OpGoto(c, WhitelistRejection(o), "op_ret")
                   /\ UNCHANGED <<pmvars, att, wait, ret, gp, nconn, nback, delays>>
              ELSE OpGetPool(c, o, "op")
  /\ UNCHANGED <<cfg, main, hvars, ctx, schemaCache, now>>

\* getSchema, lines 1579-1604, never consulting the cache.
StartGetSchemaNoCache(c) ==
  /\ pc[c] = "idle"
  /\ calls[c] < MaxOps
  /\ calls' = [calls EXCEPT ![c] = @ + 1]
  /\ \E arg \in DbArgs :
       LET o == NewOp("schema", arg, ResolveTarget(arg), <<>>, <<>>, TRUE)
       IN IF WhitelistRejects(o.target)
            THEN /\ OpGoto(c, WhitelistRejection(o), "op_ret")
                 /\ UNCHANGED <<pmvars, att, wait, ret, gp, nconn, nback, delays>>
            ELSE OpGetPool(c, o, "op")
  /\ UNCHANGED <<cfg, main, hvars, ctx, schemaCache, now>>

\* getSchema, lines 1579-1604, with an entry of age exactly TTL still
\* taken as valid.
StartGetSchemaInclusive(c) ==
  /\ pc[c] = "idle"
  /\ calls[c] < MaxOps
  /\ calls' = [calls EXCEPT ![c] = @ + 1]
  /\ \E arg \in DbArgs :
       LET o == NewOp("schema", arg, ResolveTarget(arg), <<>>, <<>>, TRUE)
           o1 == [o EXCEPT !.cacheRead = TRUE]
           e == schemaCache[o.target]
       IN IF WhitelistRejects(o.target)
            THEN /\ OpGoto(c, WhitelistRejection(o), "op_ret")
                 /\ UNCHANGED <<pmvars, att, wait, ret, gp, nconn, nback, delays>>
            ELSE IF e.ts >= 0 /\ now - e.ts <= cfg.schemaCacheTTL
              THEN /\ OpGoto(c, [o1 EXCEPT !.kind = "ok", !.fromCache = TRUE,
                                           !.cached = e.data], "op_ret")
                   /\ UNCHANGED <<pmvars, att, wait, ret, gp, nconn, nback, delays>>
              ELSE OpGetPool(c, o1, "op")
  /\ UNCHANGED <<cfg, main, hvars, ctx, schemaCache, now>>

\* The schema resource handler (lines 126-131) resolves the database and
\* calls getSchema (lines 1579-1604): whitelist, cache, getPool.
StartGetSchema(c) ==
  /\ pc[c] = "idle"
  /\ calls[c] < MaxOps
  /\ calls' = [calls EXCEPT ![c] = @ + 1]
  /\ \E arg \in DbArgs :
       LET o == NewOp("schema", arg, ResolveTarget(arg), <<>>, <<>>, TRUE)
           o1 == [o EXCEPT !.cacheRead = TRUE]
           e == schemaCache[o.target]
       IN IF WhitelistRejects(o.target)
            THEN /\ OpGoto(c, WhitelistRejection(o), "op_ret")
                 /\ UNCHANGED <<pmvars, att, wait, ret, gp, nconn, nback, delays>>
            ELSE IF e.ts >= 0 /\ now - e.ts < cfg.schemaCacheTTL
              THEN /\ OpGoto(c, [o1 EXCEPT !.kind = "ok", !.fromCache = TRUE,
                                           !.cached = e.data], "op_ret")
                   /\ UNCHANGED <<pmvars, att, wait, ret, gp, nconn, nback, delays>>
              ELSE OpGetPool(c, o1, "op")
  /\ UNCHANGED <<cfg, main, hvars, ctx, schemaCache, now>>

\* executeQuery, lines 1734-1752: target, whitelist, getPool.
StartExecuteQuery(c) ==
  /\ pc[c] = "idle"
  /\ calls[c] < MaxOps
  /\ calls' = [calls EXCEPT ![c] = @ + 1]
  /\ \E arg \in DbArgs, text \in QueryTexts :
       LET o == [NewOp("query", arg, ResolveTarget(arg), text, <<>>, TRUE)
                   EXCEPT !.prev = opst[c].prev]
       IN IF WhitelistRejects(o.target)
            THEN /\ OpGoto(c, WhitelistRejection(o), "op_ret")
                 /\ UNCHANGED <<pmvars, att, wait, ret, gp, nconn, nback, delays>>
            ELSE OpGetPool(c, o, "op")
  /\ UNCHANGED <<cfg, main, hvars, ctx, schemaCache, now>>

\* executeStoredProcedure, lines 1903-1921: target, whitelist, getPool.
StartExecuteStoredProcedure(c) ==
  /\ pc[c] = "idle"
  /\ calls[c] < MaxOps
  /\ calls' = [calls EXCEPT ![c] = @ + 1]
  /\ \E arg \in DbArgs, proc \in ProcNames, params \in ParamLists :
       LET o == [NewOp("proc", arg, ResolveTarget(arg), <<>>, proc,
                       ParamsOk(params)) EXCEPT !.params = params]
       IN IF WhitelistRejects(o.target)
            THEN /\ OpGoto(c, WhitelistRejection(o), "op_ret")
                 /\ UNCHANGED <<pmvars, att, wait, ret, gp, nconn, nback, delays>>
            ELSE OpGetPool(c, o, "op")
  /\ UNCHANGED <<cfg, main, hvars, ctx, schemaCache, now>>

\* The code after getPool() without the test of the database name.
OpAfterGetPoolNoNameCheck(c) ==
  /\ pc[c] = "gp_ret"
  /\ ret[c] = "op"
  /\ LET o == opst[c]
         o1 == [o EXCEPT !.cur = gp[c].pool]
     IN IF gp[c].kind # "ok"
          THEN OpGoto(c, Throw(o, gp[c].kind, GetPoolDetails), "op_ret")
          ELSE IF o1.target # cfg.database
            THEN OpGoto(c, o1, "use")
            ELSE \E r \in ParseResults :
                   LET o2 == Validated(o1, r)
                   IN OpGoto(c, o2, IF o2.kind = "none" THEN "main"
                                                        ELSE "op_ret")
  /\ UNCHANGED <<cfg, main, pmvars, hvars, att, wait, ret, gp, calls, nconn, nback, delays,
                 ctx, schemaCache, now>>

\* The getPool() of lines 1604, 1752, 1921 has settled.  Its error is thrown
\* as it is (the call stands outside the try block); otherwise the database
\* name is checked (lines 1608-1618, 1755-1764, 1924-1933) and the USE batch
\* sent, or, for the default database, the main statement prepared.
OpAfterGetPool(c) ==
  /\ pc[c] = "gp_ret"
  /\ ret[c] = "op"
  /\ LET o == opst[c]
         o1 == [o EXCEPT !.cur = gp[c].pool]
     IN IF gp[c].kind # "ok"
          THEN OpGoto(c, Throw(o, gp[c].kind, GetPoolDetails), "op_ret")
          ELSE IF o1.target # cfg.database
            THEN IF ~ValidDbName(o1.target)
                   THEN OpGoto(c, Throw(o1, "ValidationError",
                                         {<<"database", o1.target>>}),
                               "op_ret")
                   ELSE OpGoto(c, o1, "use")
            ELSE \E r \in ParseResults :
                   LET o2 == Validated(o1, r)
                   IN OpGoto(c, o2, IF o2.kind = "none" THEN "main"
                                                        ELSE "op_ret")
  /\ UNCHANGED <<cfg, main, pmvars, hvars, att, wait, ret, gp, calls, nconn, nback, delays,
                 ctx, schemaCache, now>>

\* The USE batch of lines 1620, 1766, 1935 succeeds on the connection j the
\* pool lent to this request; the code up to the main statement follows.
UseOk(c) ==
  /\ pc[c] = "use"
  /\ Connected(opst[c].cur)
  /\ \E j \in Conns, r \in ParseResults :
       LET o1 == [opst[c] EXCEPT !.useConn = j]
           o2 == Validated(o1, r)
       IN /\ ctx' = [ctx EXCEPT ![o1.cur][j] = StripBrackets(o1.target)]
          /\ OpGoto(c, o2, IF o2.kind = "none" THEN "main" ELSE "op_ret")
  /\ UNCHANGED <<cfg, main, pmvars, hvars, att, wait, ret, gp, calls, nconn, nback, delays,
                 schemaCache, now>>

\* The main statement (lines 1623, 1812, 1960) succeeds on the connection j
\* the pool lent to this request; getSchema stores its result (line 1687),
\* executeQuery shapes the recordset (lines 1817-1852).
MainOk(c) ==
  /\ pc[c] = "main"
  /\ Connected(opst[c].cur)
  /\ \E j \in Conns :
       LET o == opst[c]
           db == ctx[o.cur][j]
           o1 == [o EXCEPT !.mainConn = j, !.mainCtx = db, !.kind = "ok"]
       IN IF o.type = "schema"
            THEN /\ schemaCache' = [schemaCache EXCEPT
                                      ![o.target] = [ts |-> now, data |-> db]]
                 /\ OpGoto(c, [o1 EXCEPT !.cacheWrite = TRUE], "op_ret")
            ELSE IF o.type = "query"
              THEN /\ schemaCache' = schemaCache
                   /\ \E rs \in RecordSets :
                        OpGoto(c, [o1 EXCEPT !.rs = rs,
                                             !.result = ShapeResult(rs)],
                               "op_ret")
              ELSE /\ schemaCache' = schemaCache
                   /\ OpGoto(c, o1, "op_ret")
  /\ UNCHANGED <<cfg, main, pmvars, hvars, att, wait, ret, gp, calls, nconn, nback, delays,
                 ctx, now>>

\* The catch blocks for an error e raised by the driver, with a
\* connection-class error thrown at once, the pool left as it is.
StatementFailNoRebuild(c, e) ==
  LET o == [opst[c] EXCEPT !.driver = TRUE, !.err = e]
      k == Classify(o.type, e)
  IN /\ OpGoto(c, [Throw(o, k, FromRawDetails(o)) EXCEPT
                         !.msgs = {"original"}], "op_ret")
     /\ UNCHANGED <<abortController, aborted, race, poolState>>

\* The catch blocks (lines 1691-1731, 1853-1900, 1980-2027) for an error e
\* raised by the driver: it is classified; a connection-class error calls
\* closePool() (lines 1309-1316) before the rebuild.
StatementFail(c, e) ==
  LET o == [opst[c] EXCEPT !.driver = TRUE, !.err = e]
      k == Classify(o.type, e)
  IN IF k = "ConnectionError"
       THEN /\ ClosePoolAbort
            /\ IF pool # NoPool
                 THEN /\ CloseCurrent
                      /\ OpGoto(c, o, "rb_closing")
                 ELSE /\ poolState' = poolState
                      /\ OpGoto(c, o, "rb_closed")
       ELSE /\ OpGoto(c, [Throw(o, k, FromRawDetails(o)) EXCEPT
                         !.msgs = {"original"}], "op_ret")
            /\ UNCHANGED <<abortController, aborted, race, poolState>>

\* The USE batch fails.
UseFail(c) ==
  /\ pc[c] = "use"
  /\ \E e \in ErrorsOf(opst[c].cur) : StatementFail(c, e)
  /\ UNCHANGED <<cfg, main, hvars, pool, connectionPromise, isConnecting, promise,
                 perr, ipc, nextId, att, wait, ret, gp, calls, nconn, nback, delays,
                 ctx, schemaCache, now>>

\* The main statement fails, the catch block dropping the cache entry of
\* the target database.
MainFailDropsEntry(c) ==
  /\ pc[c] = "main"
  /\ \E e \in ErrorsOf(opst[c].cur) : StatementFail(c, e)
  /\ schemaCache' = [schemaCache EXCEPT ![opst[c].target] = NoEntry]
  /\ UNCHANGED <<cfg, main, hvars, pool, connectionPromise, isConnecting, promise,
                 perr, ipc, nextId, att, wait, ret, gp, calls, nconn, nback, delays,
                 ctx, now>>

\* The main statement fails.
MainFail(c) ==
  /\ pc[c] = "main"
  /\ \E e \in ErrorsOf(opst[c].cur) : StatementFail(c, e)
  /\ UNCHANGED <<cfg, main, hvars, pool, connectionPromise, isConnecting, promise,
                 perr, ipc, nextId, att, wait, ret, gp, calls, nconn, nback, delays,
                 ctx, schemaCache, now>>

\* closePool called from a catch block with its close() error rethrown
\* instead of logged.
RbCloseDoneRethrow(c) ==
  /\ pc[c] = "rb_closing"
  /\ pool' = NoPool
  /\ connectionPromise' = 0
  /\ \E failed \in BOOLEAN :
       IF failed
         THEN OpGoto(c, [opst[c] EXCEPT !.closeFailed = TRUE, !.kind = "raw"],
                     "op_ret")
         ELSE OpGoto(c, opst[c], "rb_closed")
  /\ UNCHANGED <<cfg, main, hvars, isConnecting, abortController, aborted,
                 poolState, race, promise, perr, ipc, nextId, att, wait, ret,
                 gp, calls, nconn, nback, delays, ctx, schemaCache, now>>

\* closePool, lines 1314-1323, called from a catch block: pool.close() has
\* settled; its rejection is logged (lines 1317-1319) and the finally block
\* clears the pool either way.
RbCloseDone(c) ==
  /\ pc[c] = "rb_closing"
  /\ pool' = NoPool
  /\ connectionPromise' = 0
  /\ \E failed \in BOOLEAN :
       OpGoto(c, [opst[c] EXCEPT !.closeFailed = failed], "rb_closed")
  /\ UNCHANGED <<cfg, main, hvars, isConnecting, abortController, aborted,
                 poolState, race, promise, perr, ipc, nextId, att, wait, ret,
                 gp, calls, nconn, nback, delays, ctx, schemaCache, now>>

\* Lines 1708, 1876, 2003: closePool() has returned, getPool() is called.
RbGetPool(c) ==
  /\ pc[c] = "rb_closed"
  /\ OpGetPool(c, opst[c], "rebuild")
  /\ UNCHANGED <<cfg, main, hvars, calls, ctx, schemaCache, now>>

\* The rebuild has settled, with the statement tried again on the new pool
\* when the rebuild succeeded.
OpAfterRebuildRetry(c) ==
  /\ pc[c] = "gp_ret"
  /\ ret[c] = "rebuild"
  /\ IF gp[c].kind = "ok"
       THEN OpGoto(c, [opst[c] EXCEPT !.cur = gp[c].pool], "main")
       ELSE OpGoto(c, [Throw(opst[c], "ConnectionError",
                             ReconnectDetails(opst[c])) EXCEPT
                         !.rebuildFailed = TRUE,
                         !.msgs = {"original", "reconnect"}], "op_ret")
  /\ UNCHANGED <<cfg, main, pmvars, hvars, att, wait, ret, gp, calls, nconn, nback, delays,
                 ctx, schemaCache, now>>

\* The rebuild has settled, with the rebuild's own error thrown when it
\* failed.
OpAfterRebuildReconnectOnly(c) ==
  /\ pc[c] = "gp_ret"
  /\ ret[c] = "rebuild"
  /\ LET o == Throw(opst[c], "ConnectionError",
                    IF gp[c].kind = "ok" THEN FromRawDetails(opst[c])
                                         ELSE ReconnectDetails(opst[c]))
     IN OpGoto(c, [o EXCEPT !.rebuildFailed = (gp[c].kind # "ok"),
                            !.msgs = IF gp[c].kind = "ok"
                                       THEN {"original"}
                                       ELSE {"reconnect"}], "op_ret")
  /\ UNCHANGED <<cfg, main, pmvars, hvars, att, wait, ret, gp, calls, nconn, nback, delays,
                 ctx, schemaCache, now>>

\* Lines 1709-1726, 1877-1895, 2004-2022: the rebuild has settled.  The
\* operation fails with a ConnectionError: fromError of the original error
\* (lines 1726, 1895, 2022), carrying its message, or, the rebuild having
\* failed too, the combined error whose details quote the original and the
\* reconnect message (lines 1721, 1890, 2017).
OpAfterRebuild(c) ==
  /\ pc[c] = "gp_ret"
  /\ ret[c] = "rebuild"
  /\ LET o == Throw(opst[c], "ConnectionError",
                    IF gp[c].kind = "ok" THEN FromRawDetails(opst[c])
                                         ELSE ReconnectDetails(opst[c]))
     IN OpGoto(c, [o EXCEPT !.rebuildFailed = (gp[c].kind # "ok"),
                            !.msgs = IF gp[c].kind = "ok"
                                       THEN {"original"}
                                       ELSE {"original", "reconnect"}],
               "op_ret")
  /\ UNCHANGED <<cfg, main, pmvars, hvars, att, wait, ret, gp, calls, nconn, nback, delays,
                 ctx, schemaCache, now>>

\* MssqlMcpError.fromError (errors.ts, lines 31-60): a structured error keeps
\* its kind, anything else gets the default kind.
FromError(kind, default) == IF kind \in ErrorTypes THEN kind ELSE default

\* The default kind and the detail keys each handler passes to fromError
\* (lines 60, 99, 141).
HandlerDefault(type) ==
  IF type = "query" THEN "QueryError"
  ELSE IF type = "proc" THEN "StoredProcedureError"
  ELSE "SchemaError"

HandlerDetails(type) ==
  IF type = "query" THEN {"tool", "query", "database"}
  ELSE IF type = "proc" THEN {"tool", "procedure", "database"}
  ELSE {"resource", "database"}

\* The object each handler passes to fromError (lines 61, 107, 140): the
\* tools give the database argument as they received it, undefined when it
\* was left out; the schema handler gives the identifier it resolved.
HandlerValue(o, k) ==
  IF k = "query" THEN o.text
  ELSE IF k = "procedure" THEN o.proc
  ELSE IF k = "database"
    THEN IF o.type = "schema" THEN o.target
         ELSE IF o.arg = <<>> THEN Undefined ELSE o.arg
  ELSE Some
HandlerAdditional(o) == {<<k, HandlerValue(o, k)>> : k \in HandlerDetails(o.type)}

\* The handlers with a catch block that builds the payload only for a
\* structured error and rethrows anything else.
HandlerRespondRethrow(c) ==
  /\ pc[c] = "op_ret"
  /\ LET o == opst[c]
         r == IF o.kind = "ok"
                THEN [NoResp EXCEPT !.status = "result"]
                ELSE IF o.kind \in ErrorTypes \ {"ConnectionError"}
                  THEN [status |-> "error", errorType |-> o.kind,
                        message |-> TRUE,
                        details |-> Keys(Spread(o.sd, HandlerAdditional(o))),
                        values |-> Spread(o.sd, HandlerAdditional(o))]
                  ELSE [NoResp EXCEPT !.status = "exception"]
     IN OpGoto(c, [o EXCEPT !.resp = r], "responded")
  /\ UNCHANGED <<cfg, main, pmvars, hvars, att, wait, ret, gp, calls, nconn, nback, delays,
                 ctx, schemaCache, now>>

\* The execute_query and execute_StoredProcedure tool handlers and the
\* schema resource handler (lines 44-73, 89-112, 132-151): the result is
\* returned as text, an error as the payload {error, errorType, details}
\* built from fromError(error, default, details of the handler).
HandlerRespond(c) ==
  /\ pc[c] = "op_ret"
  /\ LET o == opst[c]
         r == IF o.kind = "ok"
                THEN [NoResp EXCEPT !.status = "result"]
                ELSE [status |-> "error",
                      errorType |-> FromError(o.kind, HandlerDefault(o.type)),
                      message |-> TRUE,
                      details |-> Keys(Spread(o.sd, HandlerAdditional(o))),
                      values |-> Spread(o.sd, HandlerAdditional(o))]
     IN OpGoto(c, [o EXCEPT !.resp = r], "responded")
  /\ UNCHANGED <<cfg, main, pmvars, hvars, att, wait, ret, gp, calls, nconn, nback, delays,
                 ctx, schemaCache, now>>

\* The handler has returned its response to the transport; the locals of
\* the operation are gone.
OpReturn(c) ==
  /\ pc[c] = "responded"
  /\ OpGoto(c, [NoOp EXCEPT !.prev =
                  IF opst[c].type = "query" /\ opst[c].kind = "ok"
                    THEN [pool |-> opst[c].cur, conn |-> opst[c].mainConn]
                    ELSE NoPrev], "idle")
  /\ gp' = [gp EXCEPT ![c] = NoOutcome]
  /\ att' = [att EXCEPT ![c] = 0]
  /\ nconn' = [nconn EXCEPT ![c] = 0]
  /\ nback' = [nback EXCEPT ![c] = 0]
  /\ delays' = [delays EXCEPT ![c] = <<>>]
  /\ ret' = [ret EXCEPT ![c] = "top"]
  /\ UNCHANGED <<cfg, main, pmvars, hvars, wait, calls, ctx, schemaCache, now>>

\* Time passes.
Tick ==
  /\ now < MaxTime
  /\ now' = now + 1
  /\ UNCHANGED <<cfg, main, pmvars, hvars, cvars, opst, ctx, schemaCache>>

\* ------------------------------------------------------ specifications
\* State after construction of the service (lines 1242-1247); every driver
\* object is still to be created.
InitServiceState ==
  /\ pool = NoPool
  /\ connectionPromise = 0
  /\ isConnecting = FALSE
  /\ abortController = 0
  /\ aborted = [k \in PoolIds |-> FALSE]
  /\ poolState = [k \in PoolIds |-> "none"]
  /\ race = [k \in PoolIds |-> "none"]
  /\ promise = [k \in PoolIds |-> "none"]
  /\ perr = [k \in PoolIds |-> "none"]
  /\ ipc = [k \in PoolIds |-> "none"]
  /\ nextId = 1
  /\ hpc = [k \in PoolIds |-> "idle"]
  /\ nPoolErrors = 0
  /\ pc = [c \in Callers |-> "idle"]
  /\ att = [c \in Callers |-> 0]
  /\ wait = [c \in Callers |-> 0]
  /\ ret = [c \in Callers |-> "top"]
  /\ gp = [c \in Callers |-> NoOutcome]
  /\ calls = [c \in Callers |-> 0]
  /\ nconn = [c \in Callers |-> 0]
  /\ nback = [c \in Callers |-> 0]
  /\ delays = [c \in Callers |-> <<>>]
  /\ opst = [c \in Callers |-> NoOp]
  /\ ctx = [k \in PoolIds |-> [j \in Conns |-> cfg.database]]
  /\ schemaCache = [d \in DbNames |-> NoEntry]
  /\ now = 0

\* The process of main(): where main() stands, the pool getPool() gave it,
\* whether the verification query has run, whether server.connect(transport)
\* has been called, whether cleanup() has run, and the exit code.
NoExit == -1
MainStarting ==
  [pc |-> "start", pool |-> NoPool, gotPool |-> FALSE, failed |-> FALSE,
   verified |-> FALSE, transport |-> FALSE, cleaned |-> FALSE,
   exit |-> NoExit]
\* main() has ended with the transport connected.
MainServing ==
  [MainStarting EXCEPT !.pc = "ready", !.gotPool = TRUE, !.verified = TRUE,
                       !.transport = TRUE]

\* The service as its clients find it, main() having connected the
\* transport.
InitService ==
  /\ InitServiceState
  /\ main = MainServing

Init ==
  /\ cfg \in [maxRetries : 1..MaxRetriesBound, password : {TRUE},
              database : {DbM}, allowed : {{}}, schemaCacheTTL : {CacheTTL},
              initialRetryDelay : {InitialRetryDelayDefault},
              maxRetryDelay : {MaxRetryDelayDefault}]
  /\ InitService

PoolManagerNext ==
  \/ \E c \in Callers :
       \/ StartGetPool(c)
       \/ BackoffElapsed(c)
       \/ BriefWaitElapsed(c)
       \/ WatchResume(c)
       \/ InitResume(c)
       \/ ProbeOk(c)
       \/ ProbeFail(c)
       \/ ProbeCloseDone(c)
       \/ GetPoolReturnTop(c)
       \/ StartClosePool(c)
       \/ ClosePoolDone(c)
  \/ \E k \in PoolIds :
       \/ ConnectOk(k)
       \/ ConnectFail(k)
       \/ ConnectTimeout(k)
       \/ AttemptRaceSettled(k)
       \/ AttemptCatchResume(k)
       \/ AttemptCatchClosePoolDone(k)
       \/ PoolErrorEvent(k)
       \/ HandlerCloseDone(k)

Next == PoolManagerNext

Spec == Init /\ [][Next]_vars

\* One getPool() caller against a server that never accepts a connection:
\* every connect fails or times out, nobody else calls the service.
InitRetry ==
  /\ cfg \in [maxRetries : 0..MaxPools, password : BOOLEAN,
              database : {DbM}, allowed : {{}}, schemaCacheTTL : {CacheTTL},
              initialRetryDelay : RetryDelays, maxRetryDelay : RetryCaps]
  /\ InitService

NextRetry ==
  \/ StartGetPool(1)
  \/ BackoffElapsed(1)
  \/ InitResume(1)
  \/ GetPoolReturnTop(1)
  \/ \E k \in PoolIds :
       \/ ConnectFail(k)
       \/ ConnectTimeout(k)
       \/ AttemptRaceSettled(k)
       \/ AttemptCatchResume(k)

SpecRetry == InitRetry /\ [][NextRetry]_vars

\* One getPool() call and one closePool() call (cleanup at shutdown, lines
\* 158-165), issued while a creation attempt is in flight; no getPool() is
\* called after it.
NextCancel ==
  \/ (calls[1] = 0 /\ calls[2] = 0 /\ StartGetPool(1))
  \/ BackoffElapsed(1)
  \/ InitResume(1)
  \/ GetPoolReturnTop(1)
  \/ (calls[2] = 0 /\ InFlight # {} /\ StartClosePool(2))
  \/ \E k \in PoolIds :
       \/ ConnectOk(k)
       \/ ConnectFail(k)
       \/ ConnectTimeout(k)
       \/ AttemptRaceSettled(k)
       \/ AttemptCatchResume(k)

SpecCancel == Init /\ [][NextCancel]_vars

\* One client of the data operations, every whitelist, a server that
\* accepts or refuses connections and statements, pools that emit 'error'.
InitOps ==
  /\ cfg \in [maxRetries : {1}, password : {TRUE}, database : {DbM},
              allowed : Whitelists, schemaCacheTTL : {CacheTTL},
              initialRetryDelay : {InitialRetryDelayDefault},
              maxRetryDelay : {MaxRetryDelayDefault}]
  /\ InitService

\* The start of the process: config.js is evaluated with the environment
\* the process was given.
InitConfig ==
  /\ main = MainStarting
  /\ \E v \in EnvValues :
       cfg = [maxRetries |-> 1, password |-> TRUE, database |-> DbM,
              allowed |-> {}, schemaCacheTTL |-> CacheTTL,
              initialRetryDelay |-> InitialRetryDelayDefault,
              maxRetryDelay |-> MaxRetryDelayDefault,
              env |-> v, allowedDatabases |-> <<>>, loaded |-> FALSE]
  /\ InitServiceState

LoadConfig ==
  /\ ~cfg.loaded
  /\ LET list == AllowedDatabases(cfg.env)
     IN cfg' = [cfg EXCEPT !.allowedDatabases = list,
                           !.allowed = {list[i] : i \in DOMAIN list},
                           !.loaded = TRUE]
  /\ UNCHANGED <<main, pmvars, hvars, cvars, ovars>>

NextConfig == LoadConfig

SpecConfig == InitConfig /\ [][NextConfig]_vars

\* ------------------------------------------------------------ main()
\* main, lines 203-205: getPool() is called and awaited.
MainGetPool ==
  /\ main.pc = "start"
  /\ pc[1] = "idle"
  /\ main' = [main EXCEPT !.pc = "getPool"]
  /\ att' = [att EXCEPT ![1] = 0]
  /\ ret' = [ret EXCEPT ![1] = "main"]
  /\ GetPoolBody(1, 0, 0, 0)
  /\ UNCHANGED <<cfg, ovars, hvars, calls>>

\* main() with the transport connected as soon as getPool() has returned a
\* pool, the verification query left out.
MainAfterGetPoolNoVerify ==
  /\ main.pc = "getPool"
  /\ pc[1] = "gp_ret"
  /\ ret[1] = "main"
  /\ pc' = [pc EXCEPT ![1] = "idle"]
  /\ IF gp[1].kind = "ok" /\ Connected(gp[1].pool)
       THEN main' = [main EXCEPT !.pc = "ready", !.pool = gp[1].pool,
                                 !.gotPool = TRUE, !.transport = TRUE]
       ELSE main' = [main EXCEPT !.pc = "cleanup", !.failed = TRUE]
  /\ UNCHANGED <<cfg, ovars, pmvars, hvars, att, wait, ret, gp, calls, nconn,
                 nback, delays>>

\* main, lines 205-221: getPool() has settled.  A connected pool is sent
\* the verification query; a rejection (line 217) or a pool that is not
\* connected (line 211) leads to cleanup().
MainAfterGetPool ==
  /\ main.pc = "getPool"
  /\ pc[1] = "gp_ret"
  /\ ret[1] = "main"
  /\ pc' = [pc EXCEPT ![1] = "idle"]
  /\ IF gp[1].kind = "ok" /\ Connected(gp[1].pool)
       THEN main' = [main EXCEPT !.pc = "verify", !.pool = gp[1].pool,
                                 !.gotPool = TRUE]
       ELSE main' = [main EXCEPT !.pc = "cleanup", !.failed = TRUE]
  /\ UNCHANGED <<cfg, ovars, pmvars, hvars, att, wait, ret, gp, calls, nconn,
                 nback, delays>>

\* main, lines 208-209 and 223-224: the verification query has succeeded
\* and server.connect(transport) is called.
MainVerifyOk ==
  /\ main.pc = "verify"
  /\ Connected(main.pool)
  /\ main' = [main EXCEPT !.pc = "ready", !.verified = TRUE,
                          !.transport = TRUE]
  /\ UNCHANGED <<cfg, pmvars, hvars, cvars, ovars>>

\* main, lines 208 and 217-219: the verification query has failed.
MainVerifyFail ==
  /\ main.pc = "verify"
  /\ ErrorsOf(main.pool) # {}
  /\ main' = [main EXCEPT !.pc = "cleanup", !.failed = TRUE]
  /\ UNCHANGED <<cfg, pmvars, hvars, cvars, ovars>>

\* cleanup (lines 158-165) called by main (lines 213, 219): closePool() up
\* to its await; with no pool it returns and process.exit(1) follows.
MainCleanup ==
  /\ main.pc = "cleanup"
  /\ ClosePoolAbort
  /\ IF pool # NoPool
       THEN /\ CloseCurrent
            /\ main' = [main EXCEPT !.pc = "closing"]
       ELSE /\ UNCHANGED poolState
            /\ main' = [main EXCEPT !.pc = "exited", !.cleaned = TRUE,
                                    !.exit = 1]
  /\ UNCHANGED <<cfg, ovars, hvars, cvars, pool, connectionPromise,
                 isConnecting, promise, perr, ipc, nextId>>

\* closePool, lines 1320-1323, has settled; cleanup returns and main calls
\* process.exit(1) (lines 214, 220).
MainCleanupDone ==
  /\ main.pc = "closing"
  /\ pool' = NoPool
  /\ connectionPromise' = 0
  /\ main' = [main EXCEPT !.pc = "exited", !.cleaned = TRUE, !.exit = 1]
  /\ UNCHANGED <<cfg, ovars, hvars, cvars, isConnecting, abortController,
                 aborted, poolState, race, promise, perr, ipc, nextId>>

\* The start of the process against a server that accepts or refuses
\* connections and whose pools emit 'error'; nothing runs once the process
\* has exited.
InitMain ==
  /\ cfg \in [maxRetries : 1..MaxRetriesBound, password : {TRUE},
              database : {DbM}, allowed : {{}}, schemaCacheTTL : {CacheTTL},
              initialRetryDelay : {InitialRetryDelayDefault},
              maxRetryDelay : {MaxRetryDelayDefault}]
  /\ InitServiceState
  /\ main = MainStarting

Alive == main.exit = NoExit

NextMain ==
  \/ MainGetPool
  \/ MainAfterGetPool
  \/ MainVerifyOk
  \/ MainVerifyFail
  \/ MainCleanup
  \/ MainCleanupDone
  \/ (Alive /\ BackoffElapsed(1))
  \/ (Alive /\ InitResume(1))
  \/ \E k \in PoolIds :
       \/ (Alive /\ ConnectOk(k))
       \/ (Alive /\ ConnectFail(k))
       \/ (Alive /\ ConnectTimeout(k))
       \/ (Alive /\ AttemptRaceSettled(k))
       \/ (Alive /\ AttemptCatchResume(k))
       \/ (Alive /\ AttemptCatchClosePoolDone(k))
       \/ (Alive /\ PoolErrorEvent(k))
       \/ (Alive /\ HandlerCloseDone(k))

SpecMain == InitMain /\ [][NextMain]_vars

NextOps ==
  \/ StartExecuteQuery(1)
  \/ StartExecuteStoredProcedure(1)
  \/ StartGetSchema(1)
  \/ OpAfterGetPool(1)
  \/ UseOk(1)
  \/ UseFail(1)
  \/ MainOk(1)
  \/ MainFail(1)
  \/ RbCloseDone(1)
  \/ RbGetPool(1)
  \/ OpAfterRebuild(1)
  \/ HandlerRespond(1)
  \/ OpReturn(1)
  \/ InitResume(1)
  \/ Tick
  \/ \E k \in PoolIds :
       \/ ConnectOk(k)
       \/ ConnectFail(k)
       \/ AttemptRaceSettled(k)
       \/ AttemptCatchResume(k)

SpecOps == InitOps /\ [][NextOps]_vars

\* Two clients of the shared service: caller 1 calls the stored procedure
\* p once, without parameters, in the default database; caller 2 calls
\* getPool() once; pools emit 'error'.
NextShared ==
  \/ (/\ calls[1] = 0
      /\ StartExecuteStoredProcedure(1)
      /\ opst'[1].proc = <<"p">>
      /\ opst'[1].params = <<>>
      /\ opst'[1].arg = <<>>)
  \/ OpAfterGetPool(1)
  \/ MainOk(1)
  \/ MainFail(1)
  \/ RbCloseDone(1)
  \/ RbGetPool(1)
  \/ OpAfterRebuild(1)
  \/ HandlerRespond(1)
  \/ OpReturn(1)
  \/ (calls[2] = 0 /\ StartGetPool(2))
  \/ GetPoolReturnTop(2)
  \/ \E c \in Callers :
       \/ InitResume(c)
       \/ WatchResume(c)
  \/ \E k \in PoolIds :
       \/ ConnectOk(k)
       \/ ConnectFail(k)
       \/ AttemptRaceSettled(k)
       \/ AttemptCatchResume(k)
       \/ PoolErrorEvent(k)
       \/ HandlerCloseDone(k)

SpecShared == Init /\ [][NextShared]_vars

\* ---------------------------------------------------------- properties

\* C1: at every moment at most one underlying pool connect attempt is in
\* flight, whatever the interleaving of getPool callers, waiters, retries
\* and closePool.
C1_SingleFlight == Cardinality(InFlight) <= 1

\* C2: every pool instance whose connect succeeded and whose attempt has
\* completed is the service's current pool or has been closed: a connected
\* pool is never dropped without being closed.
C2_NoDroppedPool ==
  \A k \in PoolIds :
    (poolState[k] = "connected" /\ ipc[k] = "done") => pool = k

\* The target database of the operation caller c runs, taken from its
\* arguments: the caller-supplied name if given, else the configured default.
TargetOf(c) ==
  IF opst[c].arg = <<>> THEN cfg.database ELSE opst[c].arg
Running(c) == opst[c].type # "none"
Ended(c) == Running(c) /\ pc[c] = "op_ret"
Returned(c) == pc[c] \in {"op_ret", "responded"}
OutsideWhitelist(c) == cfg.allowed # {} /\ TargetOf(c) \notin cfg.allowed
AllSelect(ast) ==
  ast.state = "ok" /\ \A i \in DOMAIN ast.stmts : ast.stmts[i] = "select"

\* C3 as stated: an operation ends in PermissionError if and only if the
\* whitelist W is non-empty and the target database D is not a member of W.
C3_PermissionIff_Original ==
  \A c \in Callers :
    Ended(c) => (opst[c].kind = "PermissionError" <=> OutsideWhitelist(c))

\* C3 amended: an operation is rejected by the whitelist (PermissionError
\* whose details name the allowed set) if and only if W is non-empty and the
\* target database D is not a member of W; with W empty no operation is
\* rejected on the basis of D.
C3_WhitelistIff ==
  \A c \in Callers :
    Ended(c) =>
      /\ (opst[c].kind = "PermissionError" /\ opst[c].allowed)
           <=> OutsideWhitelist(c)
      /\ opst[c].allowed => opst[c].kind = "PermissionError"
      /\ cfg.allowed = {} => ~opst[c].allowed

C3_Witness ==
  \E c \in Callers :
    /\ Ended(c)
    /\ opst[c].type = "proc"
    /\ cfg.allowed = {DbM}
    /\ opst[c].arg = DbA
    /\ opst[c].kind = "PermissionError"
    /\ opst[c].allowed

\* C4: the whitelist check is the first step of every operation: an
\* operation the whitelist rejects has ended at once, with no getPool call
\* or connect attempt, no USE, no main statement, and no read or write of
\* the schema cache; getSchema returns no cached entry to it.
C4_WhitelistFirst ==
  \A c \in Callers :
    (Running(c) /\ OutsideWhitelist(c)) =>
      /\ Returned(c)
      /\ opst[c].kind = "PermissionError"
      /\ opst[c].gpCalls = 0
      /\ nconn[c] = 0
      /\ opst[c].cur = NoPool
      /\ opst[c].useConn = 0
      /\ opst[c].mainConn = 0
      /\ ~opst[c].cacheRead
      /\ ~opst[c].cacheWrite
      /\ ~opst[c].fromCache

C4_Witness ==
  \E c \in Callers :
    /\ Ended(c)
    /\ opst[c].type = "schema"
    /\ OutsideWhitelist(c)
    /\ opst[c].kind = "PermissionError"
    /\ \E d \in DbNames : schemaCache[d].ts >= 0

\* C5: executeQuery sends a text to the database only if the text is not
\* blank, parses, every top-level statement is a SELECT and the text holds
\* none of the six blocked substrings in any case; a text that parses as
\* SELECT and holds a blocked substring ends in ValidationError unexecuted.
C5_OnlySafeSelect ==
  \A c \in Callers :
    opst[c].type = "query" =>
      /\ (pc[c] = "main" \/ opst[c].mainConn # 0) =>
           /\ ~IsBlank(opst[c].text)
           /\ AllSelect(opst[c].ast)
           /\ ~HasBlockedSubstring(opst[c].text)
      /\ (AllSelect(opst[c].ast) /\ HasBlockedSubstring(opst[c].text)) =>
           /\ Returned(c)
           /\ opst[c].kind = "ValidationError"
           /\ opst[c].mainConn = 0

C5_Witness ==
  \E c \in Callers :
    /\ Ended(c)
    /\ opst[c].text = TxtSpWho
    /\ AllSelect(opst[c].ast)
    /\ opst[c].kind = "ValidationError"

\* C6: a text whose parsed result holds a top-level statement that is not a
\* SELECT makes executeQuery fail with ValidationError, unexecuted.
C6_NonSelectRejected ==
  \A c \in Callers :
    (/\ opst[c].type = "query"
     /\ opst[c].ast.state = "ok"
     /\ ~AllSelect(opst[c].ast)) =>
      /\ Returned(c)
      /\ opst[c].kind = "ValidationError"
      /\ opst[c].mainConn = 0

C6_Witness ==
  \E c \in Callers :
    /\ Ended(c)
    /\ opst[c].text = TxtTwo
    /\ opst[c].ast.state = "ok"
    /\ Len(opst[c].ast.stmts) = 2
    /\ opst[c].ast.stmts[1] = "select"
    /\ opst[c].ast.stmts[2] = "delete"
    /\ opst[c].kind = "ValidationError"

\* C7: in a call whose target database differs from the pool default, the
\* main statement runs after the context switch and on the connection the
\* context switch ran on.
C7_SameConnection ==
  \A c \in Callers :
    (TargetOf(c) # cfg.database /\ opst[c].mainConn # 0) =>
      (opst[c].useConn # 0 /\ opst[c].mainConn = opst[c].useConn)

\* C8: with a non-empty whitelist no query, procedure call or metadata
\* statement is executed on a connection whose database context is outside
\* the whitelist.
C8_WhitelistedContext ==
  \A c \in Callers :
    (cfg.allowed # {} /\ opst[c].mainConn # 0) =>
      opst[c].mainCtx \in cfg.allowed

C10_FailFast ==
  \A c \in Callers :
    (pc[c] = "gp_ret" /\ ~cfg.password) =>
      (gp[c].kind = "ValidationError" /\ nback[c] = 0)

\* C11: a getPool() call that returns the pool that existed already has
\* seen a liveness probe succeed on it.
C11_ProbedBeforeReuse ==
  \A c \in Callers :
    (/\ pc[c] = "gp_ret"
     /\ gp[c].kind = "ok"
     /\ gp[c].via \in {"existing", "probed"}) => gp[c].via = "probed"

\* C12: once closePool() has been called while a creation attempt was in
\* flight, no pool becomes the current pool through the getPool() call that
\* was in progress: the pool stays absent.
C12_CancelledStaysAbsent == calls[2] >= 1 => pool = NoPool

\* C13: a creation attempt cancelled while in flight has, when its code
\* ends, its pool instance closed and not current; a cancellation after the
\* assignment, the instance being the current pool, leaves the instance
\* closed: the service has no live current pool.
C13_CancelStep(k) ==
  /\ (ipc[k] # "done" /\ ipc'[k] = "done" /\ aborted'[k]) =>
       (poolState'[k] # "connected" /\ pool' # k)
  /\ (~aborted[k] /\ aborted'[k] /\ ipc[k] = "done" /\ pool = k) =>
       (poolState'[k] # "connected" /\ ~Connected(pool)')

C13_CancelledIsClosed == [][\A k \in PoolIds : C13_CancelStep(k)]_vars

C13_Witness ==
  \E k \in PoolIds :
    /\ aborted[k]
    /\ race[k] = "ok"
    /\ ipc[k] = "done"
    /\ poolState[k] = "closed"
    /\ promise[k] = "rejected"

\* No creation attempt is running any of its code.
NoCreation == \A k \in PoolIds : ipc[k] \in {"none", "done"}

\* A step in which caller c calls closePool() directly.
ClosePoolCalled(c) ==
  /\ pc[c] = "idle"
  /\ calls'[c] = calls[c] + 1
  /\ pc'[c] \in {"idle", "closing"}

\* C14: closePool() called with no pool and no creation in flight returns
\* at once and changes neither the pool, nor any promise, nor any driver
\* object: the pool stays absent and no creation is pending; so a second
\* closePool() after a first one changes nothing.
C14_Step(c) ==
  (ClosePoolCalled(c) /\ pool = NoPool /\ NoCreation) =>
    /\ pc'[c] = "idle"
    /\ UNCHANGED <<pool, connectionPromise, isConnecting, poolState, race,
                   promise, perr, ipc, nextId>>
    /\ abortController' = 0

C15_Step ==
  /\ \A k \in PoolIds :
       /\ (hpc[k] = "idle" /\ hpc'[k] = "closing") =>
            (pool = k /\ poolState'[k] = "closed")
       /\ (hpc[k] = "closing" /\ hpc'[k] = "idle") => pool' = NoPool
  /\ \A c \in Callers :
       (pc[c] # "gp_ret" /\ pc'[c] = "gp_ret" /\ gp'[c].kind = "ok") =>
         (gp'[c].pool = pool' /\ poolState'[pool'] = "connected")

C15_ErroredPoolDiscarded == [][C15_Step]_vars

\* After an 'error' event on pool 1, a getPool() call has created pool 2.
C15_Witness ==
  \E c \in Callers :
    /\ nPoolErrors >= 1
    /\ poolState[1] = "closed"
    /\ race[1] = "ok"
    /\ \A k \in PoolIds : hpc[k] = "idle"
    /\ pc[c] = "gp_ret"
    /\ gp[c].kind = "ok"
    /\ gp[c].via = "created"
    /\ gp[c].pool = 2
    /\ pool = 2

\* A step in which caller c calls getSchema.
GetSchemaCalled(c) == opst[c].type = "none" /\ opst'[c].type = "schema"
\* The database of the getSchema call that starts in this step, and its
\* cache entry.
CalledDb(c) == IF opst'[c].arg = <<>> THEN cfg.database ELSE opst'[c].arg
Fresh(e) == e.ts >= 0 /\ now - e.ts < cfg.schemaCacheTTL

\* C16: a getSchema(D) call made less than TTL after the entry of D was
\* stored returns exactly the stored data, at once, without asking for the
\* pool or sending any statement.
C16_Step(c) ==
  (GetSchemaCalled(c) /\ Fresh(schemaCache[CalledDb(c)])) =>
    /\ pc'[c] = "op_ret"
    /\ opst'[c].kind = "ok"
    /\ opst'[c].fromCache
    /\ opst'[c].cached = schemaCache[CalledDb(c)].data
    /\ opst'[c].gpCalls = 0
    /\ opst'[c].useConn = 0
    /\ opst'[c].mainConn = 0
    /\ UNCHANGED <<pmvars, ctx, schemaCache>>

C16_CacheHit == [][\A c \in Callers : C16_Step(c)]_vars

C16_Witness ==
  \E c \in Callers :
    /\ Ended(c)
    /\ opst[c].type = "schema"
    /\ opst[c].arg = DbA
    /\ opst[c].fromCache
    /\ opst[c].cached = DbA
    /\ schemaCache[DbA].ts = 0
    /\ now = 0

\* C17: a getSchema(D) call the whitelist admits, made when the entry of D
\* is absent or at least TTL old, is not served from the cache and goes to
\* the database; it sends the metadata statement at most once, and the
\* success of that statement replaces the entry of D by the fetched data
\* and the current time; nothing else ever changes the cache.
C17_Step(c) ==
  /\ (/\ GetSchemaCalled(c)
      /\ ~(cfg.allowed # {} /\ CalledDb(c) \notin cfg.allowed)
      /\ ~Fresh(schemaCache[CalledDb(c)])) =>
       /\ ~opst'[c].fromCache
       /\ opst'[c].gpCalls = 1
       /\ pc'[c] # "op_ret"
  /\ (pc[c] # "main" /\ pc'[c] = "main") => opst[c].mainConn = 0
  /\ IF opst[c].type = "schema" /\ pc[c] = "main" /\ opst'[c].kind = "ok"
       THEN /\ opst[c].mainConn = 0
            /\ opst'[c].mainConn # 0
            /\ schemaCache' =
                 [schemaCache EXCEPT ![TargetOf(c)] =
                    [ts |-> now, data |-> opst'[c].mainCtx]]
       ELSE schemaCache' = schemaCache

C17_CacheMiss == [][C17_Step(1)]_vars

\* The entry of A, stored at time 0, has been replaced at time 1 = TTL.
C17_Witness ==
  \E c \in Callers :
    /\ Ended(c)
    /\ opst[c].type = "schema"
    /\ opst[c].arg = DbA
    /\ calls[c] = 2
    /\ opst[c].cacheWrite
    /\ schemaCache[DbA].ts = CacheTTL
    /\ now = CacheTTL

\* The catch block of caller c is between its closePool and the end of its
\* rebuild.
Rebuilding(c) ==
  \/ pc[c] \in {"rb_closing", "rb_closed"}
  \/ ret[c] = "rebuild" /\ ~Returned(c)

\* C18: a statement error classified as a connection error closes the
\* current pool and calls getPool once more; whatever the rebuild gives,
\* no further statement is sent and the operation ends with a
\* ConnectionError, which after a successful rebuild is the original error.
C18_Step(c) ==
  /\ (pc[c] \in {"use", "main"} /\ pc'[c] = "op_ret") =>
       opst'[c].kind # "ConnectionError"
  /\ (pc[c] \in {"use", "main"} /\ pc'[c] \notin {"use", "main", "op_ret"}) =>
       /\ opst'[c].driver
       /\ abortController' = 0
       /\ IF pool = NoPool
            THEN pc'[c] = "rb_closed"
            ELSE pc'[c] = "rb_closing" /\ poolState'[pool] = "closed"
  /\ (pc[c] = "rb_closing" /\ pc'[c] # "rb_closing") =>
       pc'[c] = "rb_closed" /\ pool' = NoPool
  /\ (pc[c] = "rb_closed" /\ pc'[c] # "rb_closed") =>
       /\ ret'[c] = "rebuild"
       /\ opst[c].gpCalls = 1
       /\ opst'[c].gpCalls = 2
  /\ Rebuilding(c) =>
       /\ pc'[c] \notin {"use", "main", "idle"}
       /\ opst'[c].kind # "ok"
       /\ opst'[c].gpCalls <= 2
       /\ opst'[c].useConn = opst[c].useConn
       /\ opst'[c].mainConn = opst[c].mainConn
  /\ (pc[c] = "gp_ret" /\ ret[c] = "rebuild") =>
       /\ pc'[c] \in {"gp_ret", "op_ret"}
       /\ pc'[c] = "op_ret" =>
            /\ opst'[c].kind = "ConnectionError"
            /\ gp[c].kind = "ok" => opst'[c].msgs = {"original"}

C18_RebuildKeepsFailure == [][C18_Step(1)]_vars

\* The statement failed on pool 1, pool 1 was closed, the rebuild created
\* pool 2, and the operation has failed with the original error.
C18_Witness ==
  \E c \in Callers :
    /\ Ended(c)
    /\ opst[c].driver
    /\ opst[c].kind = "ConnectionError"
    /\ opst[c].msgs = {"original"}
    /\ opst[c].gpCalls = 2
    /\ opst[c].cur = 1
    /\ poolState[1] = "closed"
    /\ gp[c].kind = "ok"
    /\ gp[c].pool = 2
    /\ pool = 2
    /\ poolState[2] = "connected"

\* C19: when the rebuild fails too, the operation ends with one
\* ConnectionError carrying the message of the original error and the
\* message of the rebuild error.
C19_Step(c) ==
  (pc[c] = "gp_ret" /\ ret[c] = "rebuild" /\ gp[c].kind # "ok"
     /\ pc'[c] # "gp_ret") =>
    /\ pc'[c] = "op_ret"
    /\ opst'[c].kind = "ConnectionError"
    /\ opst'[c].msgs = {"original", "reconnect"}

C19_BothMessages == [][C19_Step(1)]_vars

C19_Witness ==
  \E c \in Callers :
    /\ Ended(c)
    /\ opst[c].driver
    /\ opst[c].kind = "ConnectionError"
    /\ opst[c].msgs = {"original", "reconnect"}
    /\ opst[c].gpCalls = 2
    /\ gp[c].kind = "ConnectionError"
    /\ pool = NoPool

\* C20: every getPool that fails and every data operation that fails ends
\* with an error of one of the enumerated kinds, also when closing the pool
\* failed or the rebuild failed.
C20_StructuredErrors ==
  \A c \in Callers :
    /\ Ended(c) => opst[c].kind \in ErrorTypes \cup {"ok"}
    /\ pc[c] = "gp_ret" => gp[c].kind \in ErrorTypes \cup {"ok"}

\* The close() of the rebuild was rejected and the rebuild failed.
C20_Witness ==
  \E c \in Callers :
    /\ Ended(c)
    /\ opst[c].closeFailed
    /\ opst[c].rebuildFailed
    /\ opst[c].kind = "ConnectionError"
    /\ gp[c].kind = "ConnectionError"

\* C21: every invocation whose operation has ended gets a response from
\* its handler: the result, or, when the operation failed, the payload with
\* a message, the kind of the error as errorType and a detail map; no
\* exception reaches the transport.
Responded(c) == Running(c) /\ pc[c] = "responded"

C21_Step(c) ==
  (Ended(c) /\ pc'[c] # "op_ret") =>
    /\ pc'[c] = "responded"
    /\ opst'[c].resp.status \in {"result", "error"}
    /\ opst'[c].resp.status = "result" <=> opst[c].kind = "ok"
    /\ opst[c].kind # "ok" =>
         /\ opst'[c].resp.errorType = opst[c].kind
         /\ opst'[c].resp.errorType \in ErrorTypes
         /\ opst'[c].resp.message
         /\ opst'[c].resp.details # {}

C21_AlwaysResponse == [][C21_Step(1)]_vars

\* The rebuild failed and the handler has answered with the ConnectionError
\* payload.
C21_Witness ==
  \E c \in Callers :
    /\ Responded(c)
    /\ opst[c].rebuildFailed
    /\ opst[c].resp.status = "error"
    /\ opst[c].resp.errorType = "ConnectionError"
    /\ "tool" \in opst[c].resp.details

\* C22: an executeQuery whose statement returns an empty recordset carrying
\* column metadata succeeds with the column names in the order of their
\* index, no rows and recordCount 0.
C22_EmptyWithColumns ==
  \A c \in Callers :
    (Ended(c) /\ opst[c].type = "query" /\ opst[c].rs.state = "empty"
       /\ opst[c].rs.hasColumns) =>
      /\ opst[c].kind = "ok"
      /\ Len(opst[c].result.columns) = Len(opst[c].rs.columns)
      /\ \A i \in 1..Len(opst[c].rs.columns) :
           opst[c].result.columns[opst[c].rs.columns[i].index + 1] =
             opst[c].rs.columns[i].name
      /\ opst[c].result.rows = <<>>
      /\ opst[c].result.recordCount = 0

\* The metadata lists b (index 1) before a (index 0).
C22_Witness ==
  \E c \in Callers :
    /\ Ended(c)
    /\ opst[c].type = "query"
    /\ opst[c].kind = "ok"
    /\ opst[c].rs.state = "empty"
    /\ opst[c].rs.columns = <<Col("b", 1), Col("a", 0)>>
    /\ opst[c].result.columns = <<"a", "b">>
    /\ opst[c].result.recordCount = 0

\* The procedure name of caller c is non-empty and is an identifier or two
\* identifiers joined by one dot, and each of its parameters has a name and
\* a type.
ProcCallOk(c) ==
  /\ ~IsBlank(opst[c].proc)
  /\ ValidProcName(opst[c].proc)
  /\ \A i \in 1..Len(opst[c].params) :
       opst[c].params[i].name # <<>> /\ opst[c].params[i].type # <<>>

\* C23: executeStoredProcedure sends the procedure call only when the name
\* and the parameters are well formed; otherwise the call, once it has its
\* pool and has switched context, ends with ValidationError.
C23_ProcValidated ==
  \A c \in Callers :
    (Running(c) /\ opst[c].type = "proc") =>
      /\ (pc[c] = "main" \/ opst[c].mainConn # 0 \/ opst[c].kind = "ok") =>
           ProcCallOk(c)
      /\ (Ended(c) /\ ~ProcCallOk(c) /\ opst[c].cur # NoPool
             /\ ~opst[c].driver) =>
           opst[c].kind = "ValidationError"

\* A call with a parameter without a type has ended in ValidationError.
C23_Witness ==
  \E c \in Callers :
    /\ Ended(c)
    /\ opst[c].type = "proc"
    /\ opst[c].proc = <<"d", ".", "p">>
    /\ Len(opst[c].params) = 2
    /\ opst[c].cur # NoPool
    /\ opst[c].kind = "ValidationError"
    /\ opst[c].mainConn = 0

\* The target of caller c is not the default database and has a character
\* other than a letter, a digit, a space, '_', '-', '[' or ']', or is empty.
UnsafeTarget(c) ==
  /\ TargetOf(c) # cfg.database
  /\ \/ TargetOf(c) = <<>>
     \/ \E i \in 1..Len(TargetOf(c)) :
          TargetOf(c)[i] \notin UpperLetters \cup LowerLetters \cup Digits
                                \cup {" ", "_", "-", "[", "]"}

C27_DelayCapped ==
  \A c \in Callers : \A i \in 1..Len(delays[c]) :
    delays[c][i] <= cfg.maxRetryDelay

\* The second delay would be 2000 ms or more without the cap of 500 ms.
C27_Witness ==
  /\ cfg.initialRetryDelay = 1000
  /\ cfg.maxRetryDelay = 500
  /\ Len(delays[1]) = 2
  /\ delays[1][2] = 500

\* C28: within one getPool() call the delays taken one after the other
\* never decrease.
C28_DelaysNonDecreasing ==
  \A c \in Callers : \A i \in 1..(Len(delays[c]) - 1) :
    delays[c][i] <= delays[c][i + 1]

\* C26: of two consecutive execute_query requests that succeed, the second
\* runs its statement on the connection that ran the statement of the first.
C26_SameSession ==
  \A c \in Callers :
    (Ended(c) /\ opst[c].type = "query" /\ opst[c].kind = "ok"
       /\ opst[c].prev # NoPrev) =>
      [pool |-> opst[c].cur, conn |-> opst[c].mainConn] = opst[c].prev

\* C30: every entry of the schema cache holds the metadata of the database
\* it is stored under.
C30_CacheEntryOfItsKey ==
  \A d \in DOMAIN schemaCache :
    schemaCache[d].ts >= 0 => schemaCache[d].data = StripBrackets(d)

\* Some closePool() is under way: called and not yet returned.
ClosePoolRunning ==
  \/ \E c \in Callers : pc[c] \in {"closing", "probeclose", "rb_closing"}
  \/ \E k \in PoolIds : hpc[k] = "closing" \/ ipc[k] = "catch_closePool"

\* C25: in a step that starts from a connected current pool, with no
\* closePool() under way, and that does not close that pool (no 'error'
\* event, no closePool() call), the current pool stays the same, no pool
\* instance is constructed, and every getPool() entered returns that pool
\* at once.
C25_Step ==
  (Connected(pool) /\ ~ClosePoolRunning /\ poolState'[pool] = "connected") =>
    /\ pool' = pool
    /\ nextId' = nextId
    /\ \A c \in Callers :
         (pc[c] \in {"idle", "backoff", "briefwait"} /\ pc'[c] # pc[c]) =>
           /\ pc'[c] = "gp_ret"
           /\ gp'[c].kind = "ok"
           /\ gp'[c].pool = pool
           /\ gp'[c].via = "existing"

C25_LivePoolReused == [][C25_Step]_vars

\* A second getPool() of the caller has returned pool 1, the only pool
\* ever constructed.
C25_Witness ==
  \E c \in Callers :
    /\ pc[c] = "gp_ret"
    /\ calls[c] >= 2
    /\ gp[c].via = "existing"
    /\ gp[c].pool = 1
    /\ pool = 1
    /\ nextId = 2

\* C29: the current pool becomes connected only by the assignment of line
\* 1414, made by the attempt that constructed it after its own connect
\* succeeded and while it was not cancelled; a connected current pool is
\* never replaced by another instance, only cleared; no pool instance is
\* constructed while the current pool is connected; and a connected current
\* pool stops being so only by being closed or cleared.
C29_Step ==
  /\ (pool' # pool /\ pool' # NoPool) =>
       (race[pool'] = "ok" /\ ipc[pool'] = "race" /\ ~aborted[pool'])
  /\ (~Connected(pool) /\ Connected(pool)') => pool' # pool
  /\ (Connected(pool) /\ pool' # pool) => pool' = NoPool
  /\ Connected(pool) => nextId' = nextId
  /\ (Connected(pool) /\ ~Connected(pool)') =>
       (pool' = NoPool \/ poolState'[pool] = "closed")

C29_Lifecycle == [][C29_Step]_vars

\* Pool 1 was connected and current, then closed; pool 2 is now the
\* connected current pool.
C29_Witness ==
  /\ pool = 2
  /\ poolState[2] = "connected"
  /\ ipc[2] = "done"
  /\ race[1] = "ok"
  /\ ipc[1] = "done"
  /\ promise[1] = "resolved"
  /\ poolState[1] = "closed"

\* The connection-indicative signals of lines 1871 and 1998: the message
\* contains 'connect' or the code is ESOCKET.
ConnectionSignal(e) == "connect" \in e.words \/ e.esocket

\* The phrases the catch block of an operation looks for before it looks
\* for the connection signals (lines 1863-1870, 1990-1997).
TestedEarlier(type) ==
  IF type = "query"
    THEN {"invalid sql syntax", "permission", "constraint", "timeout",
          "invalid database name format"}
    ELSE {"syntax error", "permission", "constraint", "timeout",
          "invalid database name format"}

DriverFailed(c) == opst[c].type \in {"query", "proc"} /\ opst[c].driver
RebuildDone(c) ==
  Returned(c) /\ opst[c].kind = "ConnectionError" /\ opst[c].gpCalls = 2

\* C31 as stated: every driver failure of executeQuery or
\* executeStoredProcedure that carries a connection-indicative signal is
\* classified ConnectionError and triggers the pool rebuild.
C31_EverySignalRebuilds_Original ==
  \A c \in Callers :
    (DriverFailed(c) /\ ConnectionSignal(opst[c].err)) =>
      (Rebuilding(c) \/ RebuildDone(c))

\* C31: a driver failure of executeQuery or executeStoredProcedure that
\* carries a connection-indicative signal is classified ConnectionError and
\* triggers the pool rebuild when its message holds none of the phrases the
\* catch block tests first; when it holds one, the operation ends at once
\* with the kind of that phrase and calls getPool no second time.
C31_SignalRebuilds ==
  \A c \in Callers :
    (DriverFailed(c) /\ ConnectionSignal(opst[c].err)) =>
      IF opst[c].err.words \cap TestedEarlier(opst[c].type) = {}
        THEN Rebuilding(c) \/ RebuildDone(c)
        ELSE /\ Returned(c)
             /\ opst[c].kind \in {"SqlParserError", "PermissionError",
                                  "ValidationError", "ConnectionTimeout"}
             /\ opst[c].gpCalls = 1

\* A stored procedure failed with an ESOCKET error whose message holds no
\* phrase of the catch block; the rebuild has been made.
C31_Witness ==
  \E c \in Callers :
    /\ opst[c].type = "proc"
    /\ opst[c].driver
    /\ opst[c].err = [words |-> {}, esocket |-> TRUE]
    /\ RebuildDone(c)
    /\ opst[c].cur = 1
    /\ poolState[1] = "closed"

\* C32: the handler's fromError leaves the kind and the message of the
\* service's structured error as they were, and every detail the error
\* carried is in the response with the value it had.
C32_AnnotationOnlyAdds ==
  \A c \in Callers :
    (Responded(c) /\ opst[c].kind \in ErrorTypes) =>
      /\ opst[c].resp.errorType = opst[c].kind
      /\ opst[c].resp.message
      /\ \A p \in opst[c].sd : p \in opst[c].resp.values

\* C33: the whitelist resolved from SQL_ALLOWED_DATABASES is the list of the
\* trimmed, non-empty pieces of the value split on commas: every entry is
\* trimmed and non-empty, and the list is empty exactly when the variable
\* is not set or holds no name.
Names(v) ==
  IF v = Unset THEN <<>>
  ELSE LET pieces == Split(v)
       IN FilterBoolean([i \in DOMAIN pieces |-> Trim(pieces[i])])

C33_WhitelistTrimmed ==
  cfg.loaded =>
    /\ \A i \in DOMAIN cfg.allowedDatabases :
         /\ cfg.allowedDatabases[i] # <<>>
         /\ cfg.allowedDatabases[i] = Trim(cfg.allowedDatabases[i])
    /\ cfg.allowedDatabases = <<>> <=> Names(cfg.env) = <<>>
    /\ cfg.allowedDatabases = Names(cfg.env)

\* C34: the transport is connected only after getPool() has returned a
\* pool and the verification query has run; once the pool could not be
\* established or verified, main() only runs cleanup and exits, with code 1
\* and cleanup done, the transport never connected.
C34_TransportAfterPool ==
  /\ main.transport => (main.gotPool /\ main.verified /\ ~main.failed)
  /\ main.failed =>
       (main.pc \in {"cleanup", "closing", "exited"} /\ ~main.transport)
  /\ main.exit # NoExit =>
       (main.exit = 1 /\ main.cleaned /\ main.failed /\ ~main.transport)

\* The first connect attempt failed, the second gave a pool, the query ran
\* and the transport is connected.
C34_Witness ==
  /\ main.transport
  /\ main.verified
  /\ main.pool = 2
  /\ nconn[1] = 2
  /\ poolState[1] # "connected"

\* C35: the main statement of an operation that targets the configured
\* default database runs in the default database context.
C35_DefaultContext ==
  \A c \in Callers :
    (opst[c].mainConn # 0 /\ opst[c].target = cfg.database) =>
      opst[c].mainCtx = cfg.database

\* C36: the closePool() of a catch block closes no pool instance other
\* than the one the failing operation was using.
C36_Step(c) ==
  (pc[c] \in {"use", "main"} /\ pc'[c] = "rb_closing") =>
    \A k \in PoolIds : poolState'[k] # poolState[k] => k = opst[c].cur

C36_RebuildClosesOwnPool == [][C36_Step(1)]_vars

\* C37: a caller inside a getPool() call that starts a connect attempt
\* when the latest attempt has failed does so at the end of a backoff
\* delay, whether it made the failed attempt or was waiting on it.
C37_Step(c) ==
  (/\ nconn'[c] = nconn[c] + 1
   /\ pc[c] # "idle"
   /\ nextId > 1
   /\ promise[nextId - 1] = "rejected") =>
    pc[c] = "backoff"

C37_BackoffBeforeRetry == [][\A c \in Callers : C37_Step(c)]_vars

\* ------------------------------------------------ getPool() under fairness
\* Every caller issues one getPool() call and any number of closePool()
\* calls.  The event loop runs every continuation that is ready, every timer
\* fires, and every connect, close and probe settles: weak fairness on each
\* of these steps.  Nothing obliges a client to call, nor a pool to emit
\* 'error'.
NextLive ==
  \/ \E c \in Callers :
       \/ (calls[c] = 0 /\ StartGetPool(c))
       \/ BackoffElapsed(c)
       \/ BriefWaitElapsed(c)
       \/ WatchResume(c)
       \/ InitResume(c)
       \/ ProbeOk(c)
       \/ ProbeFail(c)
       \/ ProbeCloseDone(c)
       \/ GetPoolReturnTop(c)
       \/ StartClosePool(c)
       \/ ClosePoolDone(c)
  \/ \E k \in PoolIds :
       \/ ConnectOk(k)
       \/ ConnectFail(k)
       \/ ConnectTimeout(k)
       \/ AttemptRaceSettled(k)
       \/ AttemptCatchResume(k)
       \/ AttemptCatchClosePoolDone(k)
       \/ PoolErrorEvent(k)
       \/ HandlerCloseDone(k)

Fairness ==
  /\ \A c \in Callers :
       /\ WF_vars(BackoffElapsed(c))
       /\ WF_vars(BriefWaitElapsed(c))
       /\ WF_vars(WatchResume(c))
       /\ WF_vars(InitResume(c))
       /\ WF_vars(ProbeOk(c) \/ ProbeFail(c))
       /\ WF_vars(ProbeCloseDone(c))
       /\ WF_vars(GetPoolReturnTop(c))
       /\ WF_vars(ClosePoolDone(c))
  /\ \A k \in PoolIds :
       /\ WF_vars(ConnectOk(k) \/ ConnectFail(k) \/ ConnectTimeout(k))
       /\ WF_vars(AttemptRaceSettled(k))
       /\ WF_vars(AttemptCatchResume(k))
       /\ WF_vars(AttemptCatchClosePoolDone(k))
       /\ WF_vars(HandlerCloseDone(k))

SpecLive == Init /\ [][NextLive]_vars /\ Fairness

\* Caller c is inside getPool(): awaiting the pending-creation slot, its own
\* initPool(), the brief wait of line 1518, the backoff of line 1564 or the
\* probe of the existing pool.
InGetPool(c) ==
  pc[c] \in {"watch", "initwait", "briefwait", "backoff", "probe",
             "probeclose"}

\* C38: every getPool() call eventually returns a pool or fails, whatever
\* the number of concurrent callers and the interleaving with closePool(),
\* provided every connect attempt settles: no caller waits forever on the
\* pending-creation slot or in the wait-and-retry loop of lines 1512-1520.
\* (A behaviour that has used up the MaxPools pool instances is cut short.)
C38_GetPoolTerminates ==
  \A c \in Callers :
    InGetPool(c) ~> (pc[c] = "gp_ret" \/ nextId > MaxPools)

\* A caller that awaited another call's creation attempt has its pool.
C38_Witness ==
  \E c \in Callers :
    /\ pc[c] = "gp_ret"
    /\ gp[c].via = "watched"
    /\ nextId <= MaxPools

\* C39: a getSchema(D) call that fails (whitelist, pool, database name, USE
\* batch or metadata statement) leaves the schema cache as it was: as long
\* as the call of caller c has not succeeded no step changes any entry, and
\* a call that has succeeded does not fail afterwards.
C39_Step(c) ==
  /\ (opst'[c].type = "schema" /\ opst'[c].kind # "ok") =>
       schemaCache' = schemaCache
  /\ (opst[c].type = "schema" /\ opst[c].kind = "ok") =>
       \/ opst'[c].kind = "ok"
       \/ opst'[c].type = "none"

C39_FailureKeepsCache == [][C39_Step(1)]_vars

\* A getSchema(A) call whose statement failed at the driver, the entry of A,
\* stored at time 0 and expired, still in the cache.
C39_Witness ==
  /\ Returned(1)
  /\ opst[1].type = "schema"
  /\ opst[1].target = DbA
  /\ opst[1].driver
  /\ opst[1].mainConn = 0
  /\ opst[1].kind \notin {"ok", "none"}
  /\ schemaCache[DbA] = [ts |-> 0, data |-> DbA]
  /\ now = CacheTTL

\* C40: isConnecting is true whenever a connect attempt is in flight and
\* false whenever no getPool() call is active: no caller clears the flag
\* while another caller's attempt is in flight, and the flag is not left
\* set once every call has ended.
C40_FlagTracksAttempts ==
  /\ InFlight # {} => isConnecting
  /\ (\A c \in Callers : ~InGetPool(c)) => ~isConnecting

====
